---- MODULE Spec2Model ----
(***************************************************************************)
(* A model of the takumi renderer: the stack blur, inline line breaking,   *)
(* layout tree assembly, the paint traversal and the animated WebP muxer.  *)
(* Each component has its own variables, initial predicate and actions;    *)
(* a component's specification leaves the other components idle.           *)
(***************************************************************************)
EXTENDS Integers, Sequences, FiniteSets, TLC

VARIABLES
  comp,         \* which component this behaviour exercises
  \* ---- stack blur (rendering/components/blur.rs)
  b_pc,         \* "start" | "horizontal" | "vertical" | "done"
  sigma10,      \* apply_blur's `radius` argument, in tenths
  width,        \* image width in pixels
  height,       \* image height in pixels
  blur_radius,  \* kernel radius handed to stack_blur_with_premultiply
  pixels,       \* the RGBA buffer, row major, one <<r,g,b,a>> per pixel
  temp,         \* the horizontal pass's output buffer
  original,     \* the buffer as it was handed to apply_blur
  \* ---- break_lines (layout/inline.rs)
  bl_pc,            \* "loop" | "finish" | "done"
  bl_max_height,    \* the Option<MaxHeight> argument
  bl_input,         \* heights of the lines the breaker yields, in order
  bl_layout,        \* heights of the lines the layout holds
  bl_total_height,  \* the local total_height
  bl_line_count,    \* the local line_count (the range counter under Lines)
  bl_calls,         \* number of break_next calls made
  \* ---- layout tree assembly (layout/tree.rs)
  t_pc,         \* "start" | "done" | "inserted"
  t_input,      \* the root node handed to from_node
  t_tree,       \* the NodeTreeItem from_node returned
  t_taffy,      \* the solver tree insert_into_taffy built
  \* ---- paint traversal (rendering/render.rs)
  r_pc,         \* "start" | "painting" | "done"
  r_tree,       \* the solver's tree: [style, children] per node
  r_root_size,  \* the root's computed layout size, in quarter pixels
  r_viewport,   \* the viewport's <<width, height>>, each <<px>> or <<>>
  r_result,     \* what render returned
  r_canvases,   \* the canvases being painted, innermost last
  r_stack,      \* the active render_node calls, innermost last
  r_log,        \* every paint event so far, in time order
  r_visits,     \* every render_node call so far: its path and transform
  \* ---- animated WebP muxer (rendering/write.rs)
  w_pc,         \* "start" | "frames" | "done"
  w_frames,     \* the frames argument, each with its encoded still image
  w_blend,      \* the blend argument
  w_dispose,    \* the dispose argument
  w_loop_count, \* the loop_count argument: <<n>>, or <<>> for None
  w_output,     \* the local `output` byte vector
  w_next,       \* index of the next frame the ANMF loop writes
  w_destination,\* the bytes written to `destination`
  w_result,     \* "none" | "Ok" | "Err"
  \* ---- single calls of the other functions
  f_pc,         \* "start" | "done" (and the function's own steps)
  f_input,      \* the arguments of the call
  f_output      \* what the call has produced or returned

blurVars == <<b_pc, sigma10, width, height, blur_radius, pixels, temp, original>>

breakVars == <<bl_pc, bl_max_height, bl_input, bl_layout, bl_total_height,
               bl_line_count, bl_calls>>

treeVars == <<t_pc, t_input, t_tree, t_taffy>>

renderVars == <<r_pc, r_tree, r_root_size, r_viewport, r_result, r_canvases,
                r_stack, r_log, r_visits>>

webpVars == <<w_pc, w_frames, w_blend, w_dispose, w_loop_count, w_output,
              w_next, w_destination, w_result>>

callVars == <<f_pc, f_input, f_output>>

notBlur == <<breakVars, treeVars, renderVars, webpVars, callVars>>
notBreak == <<blurVars, treeVars, renderVars, webpVars, callVars>>
notTree == <<blurVars, breakVars, renderVars, webpVars, callVars>>
notRender == <<blurVars, breakVars, treeVars, webpVars, callVars>>
notWebp == <<blurVars, breakVars, treeVars, renderVars, callVars>>
notCall == <<blurVars, breakVars, treeVars, renderVars, webpVars>>

vars == <<comp, blurVars, breakVars, treeVars, renderVars, webpVars, callVars>>

(***************************************************************************)
(* Bounds of the model.                                                    *)
(***************************************************************************)
MaxDim == 3           \* images are at most MaxDim x MaxDim
MaxSigma10 == 12      \* apply_blur radius up to 1.2 (kernel radius up to 4)
MaxKernelRadius == 6  \* the division is tried for kernel radii 1..MaxKernelRadius
MaxLineLen == 5       \* a line of a blur pass has at most MaxLineLen pixels
MaxSlideRadius == 3   \* a line is blurred with kernel radii 1..MaxSlideRadius
MaxLines == 3         \* a text breaks into at most MaxLines lines
MaxLineHeight == 3    \* line heights are 0..MaxLineHeight
MaxHeightCap == 5     \* height caps are 0..MaxHeightCap
MaxClamp == 3         \* line caps are 0..MaxClamp
MaxChildren == 3      \* the root node has at most MaxChildren children
MaxGrandChildren == 2 \* a child of the root has at most this many children
MaxRootSize4 == 6     \* root layout sizes are 0..MaxRootSize4 quarter pixels
MaxFrames == 2        \* an animation has at most MaxFrames frames
MaxParItems == 3      \* at most MaxParItems items go through a worker pool
MaxItems == 3         \* an inline tree holds at most MaxItems items
MaxPieces == 2        \* a buffer holds at most MaxPieces pieces after its header
MaxPngPixels == 3     \* a still PNG is at most MaxPngPixels pixels wide
MaxChain == 3         \* a chain of nested nodes is at most MaxChain long
MaxTokens == 3        \* a property value has at most MaxTokens tokens
MaxPercent == 150     \* percentages and Tailwind numbers are -MaxPercent..MaxPercent
MaxEntry == 2         \* entries of an inverted transform are -MaxEntry..MaxEntry

(***************************************************************************)
(* Fixed-width integer helpers.                                            *)
(***************************************************************************)
Min(a, b) == IF a <= b THEN a ELSE b
Max(a, b) == IF a >= b THEN a ELSE b
Abs(a) == IF a < 0 THEN -a ELSE a

Limb == 32768         \* 2^15: the limb base used to model u64 products

\* The concatenation of a sequence of sequences.
RECURSIVE Flatten(_)
Flatten(seqs) == IF seqs = <<>> THEN <<>> ELSE seqs[1] \o Flatten(Tail(seqs))

\* floor(2^32 / divisor), the u64 division at blur.rs:45, from 2^30 limbs.
MulVal(divisor) ==
  4 * (1073741824 \div divisor) + (4 * (1073741824 % divisor)) \div divisor

\* (s * m) >> 32 on u64 values (blur.rs:92), by schoolbook multiplication
\* in base 2^15; s < 2^31 and m <= 2^30.
MulShr32(s, m) ==
  LET s0 == s % Limb
      s1 == (s \div Limb) % Limb
      s2 == s \div (Limb * Limb)
      m0 == m % Limb
      m1 == (m \div Limb) % Limb
      m2 == m \div (Limb * Limb)
      lo(p) == p % Limb
      hi(p) == p \div Limb
      c0 == lo(s0 * m0)
      c1 == hi(s0 * m0) + lo(s0 * m1) + lo(s1 * m0)
      c2 == hi(s0 * m1) + hi(s1 * m0) + lo(s0 * m2) + lo(s1 * m1) + lo(s2 * m0)
      c3 == hi(s0 * m2) + hi(s1 * m1) + hi(s2 * m0) + lo(s1 * m2) + lo(s2 * m1)
      c4 == hi(s1 * m2) + hi(s2 * m1) + lo(s2 * m2)
      t1 == c1 + hi(c0)
      t2 == c2 + hi(t1)
      t3 == c3 + hi(t2)
      t4 == c4 + hi(t3)
  IN  (lo(t2) + lo(t3) * Limb + t4 * Limb * Limb) \div 4

\* u32x4 lane-wise arithmetic, which wraps.  A lane holds its u32 by the
\* residue nearest zero: a negative value v stands for 2^32 + v, the
\* result of a subtraction that wrapped.
VZero == <<0, 0, 0, 0>>
VAdd(a, b) == [c \in 1..4 |-> a[c] + b[c]]
VSub(a, b) == [c \in 1..4 |-> a[c] - b[c]]
VScale(a, k) == [c \in 1..4 |-> a[c] * k]

(***************************************************************************)
(* Stack blur.                                                             *)
(***************************************************************************)
\* fast_div_255: ((v + 128 + (v >> 8)) >> 8) as u8 on a u16.
fast_div_255(v) == (((v + 128 + (v \div 256)) % 65536) \div 256) % 256

\* read_pixel_premultiplied_simd: straight RGBA to premultiplied lanes.
read_pixel_premultiplied_simd(p) ==
  IF p[4] = 0 \/ p[4] = 255
  THEN p
  ELSE <<fast_div_255((p[1] * p[4]) % 65536),
         fast_div_255((p[2] * p[4]) % 65536),
         fast_div_255((p[3] * p[4]) % 65536),
         p[4]>>

\* The stack and the three sums after the two initialisation loops of a
\* pass; line is the row (or column) as the pass reads it, 1-indexed.
RECURSIVE InitStack(_, _, _, _)
InitStack(line, r, i, st) ==
  IF i > 2 * r THEN st
  ELSE IF i <= r
  THEN InitStack(line, r, i + 1,
         [st EXCEPT !.stack = [st.stack EXCEPT ![i] = line[1]],
                    !.sum = VAdd(st.sum, VScale(line[1], r + 1 - i)),
                    !.sum_out = VAdd(st.sum_out, line[1])])
  ELSE LET src == Min(i - r, Len(line) - 1)
           src_pix == line[src + 1]
       IN  InitStack(line, r, i + 1,
             [st EXCEPT !.stack = [st.stack EXCEPT ![i] = src_pix],
                        !.sum = VAdd(st.sum, VScale(src_pix, i - r)),
                        !.sum_in = VAdd(st.sum_in, src_pix)])

\* One iteration of the sliding loop at position x (0-based): emit the
\* current sum, then move the window by one.
SlideStep(line, r, x, st) ==
  LET div == 2 * r + 1
      sum1 == VSub(st.sum, st.sum_out)
      stack_start == (st.stack_ptr + div - r) % div
      sum_out1 == VSub(st.sum_out, st.stack[stack_start])
      src == Min(x + r + 1, Len(line) - 1)
      src_pix == line[src + 1]
      stack1 == [st.stack EXCEPT ![stack_start] = src_pix]
      sum_in1 == VAdd(st.sum_in, src_pix)
      sum2 == VAdd(sum1, sum_in1)
      ptr1 == (st.stack_ptr + 1) % div
  IN  [stack |-> stack1,
       sum |-> sum2,
       sum_in |-> VSub(sum_in1, stack1[ptr1]),
       sum_out |-> VAdd(sum_out1, stack1[ptr1]),
       stack_ptr |-> ptr1,
       out |-> Append(st.out, st.sum)]

RECURSIVE SlideLoop(_, _, _, _)
SlideLoop(line, r, x, st) ==
  IF x >= Len(line) THEN st
  ELSE SlideLoop(line, r, x + 1, SlideStep(line, r, x, st))

\* The sequence of `sum` vectors a pass divides, one per position.
StackSums(line, r) ==
  LET st0 == [stack |-> [i \in 0..(2 * r) |-> VZero],
              sum |-> VZero, sum_in |-> VZero, sum_out |-> VZero,
              stack_ptr |-> r, out |-> <<>>]
  IN  SlideLoop(line, r, 0, InitStack(line, r, 0, st0)).out

\* blurred = (sum * mul_vec) >> 32, lane by lane.
Blurred(sum, r) ==
  [c \in 1..4 |-> MulShr32(sum[c], MulVal((r + 1) * (r + 1)))]

\* Horizontal pass: rows of `pixels`, premultiplied on read, written to
\* temp with each lane truncated to u8.
HorizontalRow(px, w, r, y) ==
  LET line == [x \in 1..w |-> read_pixel_premultiplied_simd(px[y * w + x])]
      sums == StackSums(line, r)
  IN  [x \in 1..w |-> [c \in 1..4 |-> Blurred(sums[x], r)[c] % 256]]

HorizontalPassOf(px, w, h, r) ==
  [i \in 1..(w * h) |-> HorizontalRow(px, w, r, (i - 1) \div w)[((i - 1) % w) + 1]]

\* The write of the vertical pass: clamp to 255 and unpremultiply.
Unpremultiply(arr) ==
  LET r == Min(arr[1], 255)
      g == Min(arr[2], 255)
      b == Min(arr[3], 255)
      a == Min(arr[4], 255)
  IN  IF a = 0 THEN <<0, 0, 0, 0>>
      ELSE IF a = 255 THEN <<r, g, b, 255>>
      ELSE <<Min((r * 255) \div a, 255), Min((g * 255) \div a, 255),
             Min((b * 255) \div a, 255), a>>

\* Vertical pass: columns of temp, written back to `pixels`.
VerticalColumn(tmp, w, h, r, x) ==
  LET line == [y \in 1..h |-> tmp[(y - 1) * w + x + 1]]
      sums == StackSums(line, r)
  IN  [y \in 1..h |-> Unpremultiply(Blurred(sums[y], r))]

VerticalPassOf(tmp, w, h, r) ==
  [i \in 1..(w * h) |-> VerticalColumn(tmp, w, h, r, (i - 1) % w)[((i - 1) \div w) + 1]]

\* The colours images are built from.
Palette ==
  { <<255, 0, 0, 255>>, <<10, 20, 30, 255>>, <<255, 255, 255, 255>>,
    <<0, 0, 0, 255>>, <<200, 100, 50, 128>>, <<9, 9, 9, 0>> }

\* An image of one colour, with at most one pixel of another colour.
Images(w, h) ==
  { [i \in 1..(w * h) |-> IF i = k THEN odd ELSE base] :
      base \in Palette, odd \in Palette, k \in 0..(w * h) }

IdleBlur ==
  /\ b_pc = "idle"
  /\ sigma10 = 0
  /\ width = 0
  /\ height = 0
  /\ blur_radius = 0
  /\ pixels = <<>>
  /\ temp = <<>>
  /\ original = <<>>

IdleBreak ==
  /\ bl_pc = "idle"
  /\ bl_max_height = [kind |-> "None"]
  /\ bl_input = <<>>
  /\ bl_layout = <<>>
  /\ bl_total_height = 0
  /\ bl_line_count = 0
  /\ bl_calls = 0

IdleTree ==
  /\ t_pc = "idle"
  /\ t_input = <<>>
  /\ t_tree = <<>>
  /\ t_taffy = <<>>

IdleRender ==
  /\ r_pc = "idle"
  /\ r_tree = <<>>
  /\ r_root_size = <<0, 0>>
  /\ r_viewport = <<<<>>, <<>>>>
  /\ r_result = [kind |-> "none"]
  /\ r_canvases = <<>>
  /\ r_stack = <<>>
  /\ r_log = <<>>
  /\ r_visits = <<>>

IdleWebp ==
  /\ w_pc = "idle"
  /\ w_frames = <<>>
  /\ w_blend = FALSE
  /\ w_dispose = FALSE
  /\ w_loop_count = <<>>
  /\ w_output = <<>>
  /\ w_next = 1
  /\ w_destination = <<>>
  /\ w_result = "none"

IdleCall ==
  /\ f_pc = "idle"
  /\ f_input = <<>>
  /\ f_output = <<>>

InitBlur ==
  /\ comp = "blur"
  /\ IdleCall
  /\ IdleBreak
  /\ IdleTree
  /\ IdleRender
  /\ IdleWebp
  /\ b_pc = "start"
  /\ sigma10 \in 0..MaxSigma10
  /\ width \in 1..MaxDim
  /\ height \in 1..MaxDim
  /\ pixels \in Images(width, height)
  /\ original = pixels
  /\ temp = <<>>
  /\ blur_radius = 0

\* apply_blur: return on radius <= 0, else round(radius * 3).max(1) and the
\* entry checks and clamp of stack_blur_with_premultiply.
ApplyBlur ==
  /\ comp = "blur"
  /\ b_pc = "start"
  /\ LET kernel == Max((3 * sigma10 + 5) \div 10, 1)
     IN  IF sigma10 <= 0 \/ kernel = 0 \/ width = 0 \/ height = 0
         THEN /\ b_pc' = "done"
              /\ blur_radius' = 0
         ELSE /\ b_pc' = "horizontal"
              /\ blur_radius' = Min(kernel, 254)
  /\ UNCHANGED <<comp, sigma10, width, height, pixels, temp, original, notBlur>>

HorizontalPass ==
  /\ comp = "blur"
  /\ b_pc = "horizontal"
  /\ temp' = HorizontalPassOf(pixels, width, height, blur_radius)
  /\ b_pc' = "vertical"
  /\ UNCHANGED <<comp, sigma10, width, height, blur_radius, pixels, original, notBlur>>

VerticalPass ==
  /\ comp = "blur"
  /\ b_pc = "vertical"
  /\ pixels' = VerticalPassOf(temp, width, height, blur_radius)
  /\ b_pc' = "done"
  /\ UNCHANGED <<comp, sigma10, width, height, blur_radius, temp, original, notBlur>>

NextBlur == ApplyBlur \/ HorizontalPass \/ VerticalPass

SpecBlur == InitBlur /\ [][NextBlur]_vars

(***************************************************************************)
(* break_lines.  The text library's breaker is modelled by the sequence    *)
(* of lines it yields for the given text and max_width: break_next         *)
(* commits the next line and returns its height, or returns None when the  *)
(* text is exhausted; revert drops the last committed line.                *)
(***************************************************************************)
RECURSIVE SumSeq(_)
SumSeq(s) == IF s = <<>> THEN 0 ELSE s[1] + SumSeq(Tail(s))

SeqsUpTo(S, n) == UNION { [1..k -> S] : k \in 0..n }

MaxHeights ==
  { [kind |-> "None"] }
    \cup { [kind |-> "Lines", lines |-> n] : n \in 0..MaxClamp }
    \cup { [kind |-> "Absolute", max_height |-> h] : h \in 0..MaxHeightCap }
    \cup { [kind |-> "Both", max_height |-> h, max_lines |-> n] :
             h \in 0..MaxHeightCap, n \in 0..MaxClamp }

\* break_next: None when no line is left to break.
BreakerExhausted == Len(bl_layout) >= Len(bl_input)
NextLineHeight == bl_input[Len(bl_layout) + 1]

\* revert: back to the state before the last committed line.
Reverted(lines) ==
  IF lines = <<>> THEN lines ELSE SubSeq(lines, 1, Len(lines) - 1)

InitBreak ==
  /\ comp = "break"
  /\ IdleCall
  /\ IdleBlur
  /\ IdleTree
  /\ IdleRender
  /\ IdleWebp
  /\ bl_pc = "loop"
  /\ bl_max_height \in MaxHeights
  /\ bl_input \in SeqsUpTo(0..MaxLineHeight, MaxLines)
  /\ bl_layout = <<>>
  /\ bl_total_height = 0
  /\ bl_line_count = 0
  /\ bl_calls = 0

\* max_height = None: layout.break_all_lines(Some(max_width)).
BreakAllLines ==
  /\ comp = "break"
  /\ bl_pc = "loop"
  /\ bl_max_height.kind = "None"
  /\ bl_layout' = bl_input
  /\ bl_pc' = "done"
  /\ UNCHANGED <<comp, notBreak, bl_max_height, bl_input, bl_total_height,
                 bl_line_count, bl_calls>>

\* The range written `0..=lines`: one turn too many.
BreakLinesLines_Inclusive ==
  /\ comp = "break"
  /\ bl_pc = "loop"
  /\ bl_max_height.kind = "Lines"
  /\ IF bl_line_count <= bl_max_height.lines
     THEN /\ bl_calls' = bl_calls + 1
          /\ IF BreakerExhausted
             THEN /\ bl_pc' = "finish"
                  /\ UNCHANGED <<bl_layout, bl_line_count>>
             ELSE /\ bl_layout' = Append(bl_layout, NextLineHeight)
                  /\ bl_line_count' = bl_line_count + 1
                  /\ bl_pc' = "loop"
     ELSE /\ bl_pc' = "finish"
          /\ UNCHANGED <<bl_layout, bl_line_count, bl_calls>>
  /\ UNCHANGED <<comp, notBreak, bl_max_height, bl_input, bl_total_height>>

\* MaxHeight::Lines: one turn of `for _ in 0..lines`.
BreakLinesLines ==
  /\ comp = "break"
  /\ bl_pc = "loop"
  /\ bl_max_height.kind = "Lines"
  /\ IF bl_line_count < bl_max_height.lines
     THEN /\ bl_calls' = bl_calls + 1
          /\ IF BreakerExhausted
             THEN /\ bl_pc' = "finish"
                  /\ UNCHANGED <<bl_layout, bl_line_count>>
             ELSE /\ bl_layout' = Append(bl_layout, NextLineHeight)
                  /\ bl_line_count' = bl_line_count + 1
                  /\ bl_pc' = "loop"
     ELSE /\ bl_pc' = "finish"
          /\ UNCHANGED <<bl_layout, bl_line_count, bl_calls>>
  /\ UNCHANGED <<comp, notBreak, bl_max_height, bl_input, bl_total_height>>

\* MaxHeight::Absolute: one turn of `while total_height < max_height`.
BreakLinesAbsolute ==
  /\ comp = "break"
  /\ bl_pc = "loop"
  /\ bl_max_height.kind = "Absolute"
  /\ IF bl_total_height < bl_max_height.max_height
     THEN /\ bl_calls' = bl_calls + 1
          /\ IF BreakerExhausted
             THEN /\ bl_pc' = "finish"
                  /\ UNCHANGED <<bl_layout, bl_total_height>>
             ELSE /\ bl_layout' = Append(bl_layout, NextLineHeight)
                  /\ bl_total_height' = bl_total_height + NextLineHeight
                  /\ bl_pc' = "loop"
     ELSE /\ bl_pc' = "finish"
          /\ UNCHANGED <<bl_layout, bl_total_height, bl_calls>>
  /\ UNCHANGED <<comp, notBreak, bl_max_height, bl_input, bl_line_count>>

\* MaxHeight::Both: one turn of the while loop with its line_count check.
BreakLinesBoth ==
  /\ comp = "break"
  /\ bl_pc = "loop"
  /\ bl_max_height.kind = "Both"
  /\ IF /\ bl_total_height < bl_max_height.max_height
        /\ ~(bl_line_count >= bl_max_height.max_lines)
     THEN /\ bl_calls' = bl_calls + 1
          /\ IF BreakerExhausted
             THEN /\ bl_pc' = "finish"
                  /\ UNCHANGED <<bl_layout, bl_total_height, bl_line_count>>
             ELSE /\ bl_layout' = Append(bl_layout, NextLineHeight)
                  /\ bl_line_count' = bl_line_count + 1
                  /\ bl_total_height' = bl_total_height + NextLineHeight
                  /\ bl_pc' = "loop"
     ELSE /\ bl_pc' = "finish"
          /\ UNCHANGED <<bl_layout, bl_total_height, bl_line_count, bl_calls>>
  /\ UNCHANGED <<comp, notBreak, bl_max_height, bl_input>>

\* The finish without the revert of an overflowing last line.
BreakLinesFinish_NoRevert ==
  /\ comp = "break"
  /\ bl_pc = "finish"
  /\ bl_pc' = "done"
  /\ UNCHANGED <<comp, notBreak, bl_max_height, bl_input, bl_layout,
                 bl_total_height, bl_line_count, bl_calls>>

\* After the loop: revert the last break when a height cap was exceeded,
\* then breaker.finish().
BreakLinesFinish ==
  /\ comp = "break"
  /\ bl_pc = "finish"
  /\ bl_layout' =
       IF /\ bl_max_height.kind \in {"Absolute", "Both"}
          /\ bl_total_height > bl_max_height.max_height
       THEN Reverted(bl_layout)
       ELSE bl_layout
  /\ bl_pc' = "done"
  /\ UNCHANGED <<comp, notBreak, bl_max_height, bl_input, bl_total_height,
                 bl_line_count, bl_calls>>

NextBreak ==
  \/ BreakAllLines
  \/ BreakLinesLines
  \/ BreakLinesAbsolute
  \/ BreakLinesBoth
  \/ BreakLinesFinish

SpecBreak == InitBreak /\ [][NextBreak]_vars

HeightCapped == bl_max_height.kind \in {"Absolute", "Both"}
LineCapped == bl_max_height.kind \in {"Lines", "Both"}
LineCap ==
  IF bl_max_height.kind = "Lines" THEN bl_max_height.lines
  ELSE bl_max_height.max_lines

\* C2: under a height cap h the finished layout's line heights sum to at
\* most h; a line is only ever broken while the lines before it sum to less
\* than h, and a layout that summed to more than h lost its last line.
HeightCapRespected ==
  (comp = "break" /\ HeightCapped) =>
    /\ bl_layout # <<>> =>
         SumSeq(Reverted(bl_layout)) < bl_max_height.max_height
    /\ bl_pc = "done" =>
         /\ SumSeq(bl_layout) <= bl_max_height.max_height
         /\ bl_total_height > bl_max_height.max_height =>
              Len(bl_layout) = bl_calls - 1

HeightCapRevertReached ==
  /\ comp = "break"
  /\ bl_pc = "done"
  /\ HeightCapped
  /\ bl_total_height > bl_max_height.max_height
  /\ bl_layout # <<>>
  /\ Len(bl_layout) < Len(bl_input)

\* C3: under a line cap n break_next is called at most n times and the
\* layout never holds more than n lines.
LineCapRespected ==
  (comp = "break" /\ LineCapped) =>
    /\ bl_calls <= LineCap
    /\ Len(bl_layout) <= LineCap

LineCapReached ==
  /\ comp = "break"
  /\ bl_pc = "done"
  /\ LineCapped
  /\ LineCap > 0
  /\ Len(bl_layout) = LineCap
  /\ Len(bl_input) > LineCap

(***************************************************************************)
(* Layout tree assembly: NodeTreeItem::from_node.  An input node is        *)
(* [display, font_size, has_children, children]; display is the node's     *)
(* resolved display and font_size 0 stands for an unset font size.  A      *)
(* NodeTreeItem is [context, node, has_children, children] where node is   *)
(* <<path>> for Some(node at that path of the input) and <<>> for None.    *)
(***************************************************************************)
\* Display::is_inline, Display::to_block and InheritedStyle::default().
DisplayIsInline(d) == d = "Inline"
ToBlock(d) == IF d = "Inline" THEN "Block" ELSE d
DefaultDisplay == "Block"

RootFontSize == 16

\* NodeTreeItem::is_inline
is_inline(item) == item.context.display = "Inline"

AllInline(items) == \A i \in 1..Len(items) : is_inline(items[i])

\* The anonymous item that holds a run of inline items.
AnonymousBlock(context, group) ==
  [context |-> [context EXCEPT !.display = DefaultDisplay],
   node |-> <<>>,
   has_children |-> TRUE,
   children |-> group]

\* The `for item in children` loop of from_node: acc is final_children,
\* group is inline_group.
RECURSIVE GroupLoop(_, _, _, _, _)
GroupLoop(context, children, i, acc, group) ==
  IF i > Len(children) THEN acc
  ELSE IF ~is_inline(children[i])
  THEN GroupLoop(context, children, i + 1,
         Append(IF group # <<>>
                THEN Append(acc, AnonymousBlock(context, group))
                ELSE acc,
                children[i]),
         <<>>)
  ELSE GroupLoop(context, children, i + 1, acc, Append(group, children[i]))

RECURSIVE from_node(_, _, _)
from_node(parent_context, node, path) ==
  LET font_size == IF node.font_size # 0 THEN node.font_size
                   ELSE parent_context.font_size
      context == [display |-> node.display, font_size |-> font_size]
      children == [i \in 1..Len(node.children) |->
                     from_node(context, node.children[i], Append(path, i))]
  IN  IF ~node.has_children
      THEN [context |-> context, node |-> <<path>>,
            has_children |-> FALSE, children |-> <<>>]
      ELSE IF ~DisplayIsInline(context.display) \/ AllInline(children)
      THEN [context |-> context, node |-> <<path>>,
            has_children |-> TRUE, children |-> children]
      ELSE LET blocked == [context EXCEPT !.display = ToBlock(context.display)]
           IN  [context |-> blocked, node |-> <<path>>,
                has_children |-> TRUE,
                children |-> GroupLoop(blocked, children, 1, <<>>, <<>>)]

Leaf(d) ==
  [display |-> d, font_size |-> 0, has_children |-> FALSE, children |-> <<>>]

LeafNodes == { Leaf(d) : d \in {"Inline", "Block", "Flex"} }

ChildNodes ==
  LeafNodes \cup
    { [display |-> d, font_size |-> f, has_children |-> TRUE, children |-> cs] :
        d \in {"Inline", "Block"}, f \in {0},
        cs \in SeqsUpTo({Leaf("Inline"), Leaf("Block")}, MaxGrandChildren) }

RootNodes ==
  { [display |-> d, font_size |-> f, has_children |-> TRUE, children |-> cs] :
      d \in {"Inline", "Block"}, f \in {0, 20},
      cs \in SeqsUpTo(ChildNodes, MaxChildren) }

RootContext == [display |-> DefaultDisplay, font_size |-> RootFontSize]

InitTree ==
  /\ comp = "tree"
  /\ IdleCall
  /\ IdleBlur
  /\ IdleBreak
  /\ IdleRender
  /\ IdleWebp
  /\ t_pc = "start"
  /\ t_input \in RootNodes
  /\ t_tree = <<>>
  /\ t_taffy = <<>>

\* The node at a path of the input tree.
RECURSIVE NodeAt(_, _)
NodeAt(node, path) ==
  IF path = <<>> THEN node ELSE NodeAt(node.children[path[1]], Tail(path))

FromNode ==
  /\ comp = "tree"
  /\ t_pc = "start"
  /\ t_tree' = from_node(RootContext, t_input, <<>>)
  /\ t_pc' = "done"
  /\ UNCHANGED <<comp, notTree, t_input, t_taffy>>

\* Node::inline_content: a text or image leaf has inline content (Some),
\* a container has none.
inline_content(node) == ~node.has_children

\* collect_inline_nodes: the items try_insert_node pushes, in order; an
\* item of the inline tree is the path of the input node it holds.
RECURSIVE collect_inline_nodes(_, _)
collect_inline_nodes(item, root) ==
  (IF item.node # <<>> /\ inline_content(NodeAt(root, item.node[1]))
   THEN <<item.node[1]>> ELSE <<>>)
    \o (IF item.has_children
        THEN Flatten([i \in 1..Len(item.children) |->
                        collect_inline_nodes(item.children[i], root)])
        ELSE <<>>)

\* insert_into_taffy: the solver node made for an item, with the solver
\* nodes set as its children.
RECURSIVE insert_into_taffy(_, _)
insert_into_taffy(item, root) ==
  IF is_inline(item)
  THEN [context |-> item.context,
        content |-> <<"Inline", collect_inline_nodes(item, root)>>,
        children |-> <<>>]
  ELSE [context |-> item.context,
        content |-> <<"Node", item.node>>,
        children |-> IF item.has_children
                     THEN [i \in 1..Len(item.children) |->
                             insert_into_taffy(item.children[i], root)]
                     ELSE <<>>]

InsertIntoTaffy ==
  /\ comp = "tree"
  /\ t_pc = "done"
  /\ t_taffy' = insert_into_taffy(t_tree, t_input)
  /\ t_pc' = "inserted"
  /\ UNCHANGED <<comp, notTree, t_input, t_tree>>

NextTree == FromNode \/ InsertIntoTaffy

SpecTree == InitTree /\ [][NextTree]_vars

\* All items of a tree, the root included.
RECURSIVE ItemsOf(_)
ItemsOf(item) ==
  {item} \cup UNION { ItemsOf(item.children[i]) : i \in 1..Len(item.children) }

\* The input nodes below an item's children, anonymous blocks opened up.
RECURSIVE FlatNodes(_)
FlatNodes(items) ==
  IF items = <<>> THEN <<>>
  ELSE (IF items[1].node = <<>> THEN FlatNodes(items[1].children)
        ELSE <<items[1].node[1]>>) \o FlatNodes(Tail(items))

Homogeneous(items) ==
  AllInline(items) \/ \A i \in 1..Len(items) : ~is_inline(items[i])

IsAnonymousBlockOf(item, parent) ==
  /\ item.node = <<>>
  /\ item.context = [parent.context EXCEPT !.display = DefaultDisplay]
  /\ item.children # <<>>
  /\ AllInline(item.children)

\* C4: after from_node the children of every node are all inline or all
\* non-inline; the inline children of a node with mixed children sit in
\* anonymous blocks (node None, default style, the parent's context), one
\* per maximal run, which together with the other children hold the node's
\* children in order.
InlineGroupingInvariant ==
  (comp = "tree" /\ t_pc = "done") =>
    \A item \in ItemsOf(t_tree) :
      /\ Homogeneous(item.children)
      /\ item.node # <<>> =>
           /\ FlatNodes(item.children) =
                [i \in 1..Len(NodeAt(t_input, item.node[1]).children) |->
                   Append(item.node[1], i)]
           /\ \A i \in 1..Len(item.children) :
                item.children[i].node = <<>> =>
                  /\ IsAnonymousBlockOf(item.children[i], item)
                  /\ i > 1 => item.children[i - 1].node # <<>>

(***************************************************************************)
(* Affine transforms.  Entries are integers: lengths are whole pixels and  *)
(* angles are given by their (cos, sin) pair at quarter turns or by their  *)
(* tangent, so every product below is exact.                               *)
(***************************************************************************)
Affine(a, b, c, d, x, y) == [a |-> a, b |-> b, c |-> c, d |-> d, x |-> x, y |-> y]

IDENTITY == Affine(1, 0, 0, 1, 0, 0)

\* impl Mul<Affine> for Affine
AffineMul(self, rhs) ==
  Affine(self.a * rhs.a + self.b * rhs.c,
         self.a * rhs.b + self.b * rhs.d,
         self.c * rhs.a + self.d * rhs.c,
         self.c * rhs.b + self.d * rhs.d,
         self.x * rhs.a + self.y * rhs.c + rhs.x,
         self.x * rhs.b + self.y * rhs.d + rhs.y)

translation(x, y) == Affine(1, 0, 0, 1, x, y)
scale(x, y) == Affine(x, 0, 0, y, 0, 0)

\* Affine::rotation for an angle of k quarter turns.
Cos4(k) == CASE k % 4 = 0 -> 1 [] k % 4 = 1 -> 0 [] k % 4 = 2 -> -1 [] OTHER -> 0
Sin4(k) == CASE k % 4 = 0 -> 0 [] k % 4 = 1 -> 1 [] k % 4 = 2 -> 0 [] OTHER -> -1
rotation(k) == Affine(Cos4(k), Sin4(k), -Sin4(k), Cos4(k), 0, 0)

\* Affine::skew, given the tangents of its two angles.
skew(tanx, tany) == Affine(1, tany, tanx, 1, 0, 0)

determinant(t) == t.a * t.d - t.b * t.c

\* The comparison written `>=`: every transform passes.
is_invertible_OrEqual(t) == Abs(determinant(t)) >= 0

\* |det| > f32::EPSILON; on integer entries that is |det| > 0.
is_invertible(t) == Abs(determinant(t)) > 0

\* Transforms::to_affine: the transform list multiplied left to right.
RECURSIVE to_affine(_, _)
to_affine(list, instance) ==
  IF list = <<>> THEN instance
  ELSE LET t == list[1]
           m == CASE t[1] = "Translate" -> translation(t[2], t[3])
                  [] t[1] = "Scale" -> scale(t[2], t[3])
                  [] t[1] = "Rotate" -> rotation(t[2])
                  [] t[1] = "Skew" -> skew(t[2], t[3])
                  [] OTHER -> t[2]
       IN  to_affine(Tail(list), AffineMul(instance, m))

\* The scale multiplied in before the rotation.
create_transform_ScaleFirst(transform, style) ==
  LET center == <<style.origin[1] + transform.x, style.origin[2] + transform.y>>
      t0 == AffineMul(transform, translation(-center[1], -center[2]))
      t1 == IF style.transform # <<>>
            THEN AffineMul(t0, to_affine(style.transform, IDENTITY)) ELSE t0
      t2 == IF style.scale # <<>>
            THEN AffineMul(t1, scale(style.scale[1], style.scale[2])) ELSE t1
      t3 == IF style.rotate # <<>>
            THEN AffineMul(t2, rotation(style.rotate[1])) ELSE t2
      t4 == IF style.translate # <<>>
            THEN AffineMul(t3, translation(style.translate[1], style.translate[2]))
            ELSE t3
  IN  AffineMul(t4, translation(center[1], center[2]))

\* create_transform; an absent property is <<>>.
create_transform(transform, style) ==
  LET center == <<style.origin[1] + transform.x, style.origin[2] + transform.y>>
      t0 == AffineMul(transform, translation(-center[1], -center[2]))
      t1 == IF style.transform # <<>>
            THEN AffineMul(t0, to_affine(style.transform, IDENTITY)) ELSE t0
      t2 == IF style.rotate # <<>>
            THEN AffineMul(t1, rotation(style.rotate[1])) ELSE t1
      t3 == IF style.scale # <<>>
            THEN AffineMul(t2, scale(style.scale[1], style.scale[2])) ELSE t2
      t4 == IF style.translate # <<>>
            THEN AffineMul(t3, translation(style.translate[1], style.translate[2]))
            ELSE t3
  IN  AffineMul(t4, translation(center[1], center[2]))

(***************************************************************************)
(* Overflow.                                                               *)
(***************************************************************************)
\* Overflows::should_clip_content
should_clip_content(overflow) == overflow # <<"Visible", "Visible">>

\* Overflows::create_constrain yields a constraint unless a clipped axis
\* has an empty content box (the transform is invertible at its call).
can_create_constrain(overflow, content_box, transform) ==
  /\ should_clip_content(overflow)
  /\ ~(overflow[1] # "Visible" /\ content_box[1] <= 0)
  /\ ~(overflow[2] # "Visible" /\ content_box[2] <= 0)
  /\ is_invertible(transform)

(***************************************************************************)
(* The paint traversal: render and render_node.  A node of the solver's    *)
(* tree is [style, children]; its path is the sequence of child indices    *)
(* leading to it, the root being <<1>>.                                    *)
(***************************************************************************)
PlainStyle ==
  [opacity |-> 1, display |-> "Flex", location |-> <<0, 0>>,
   origin |-> <<1, 1>>, transform |-> <<>>, rotate |-> <<>>, scale |-> <<>>,
   translate |-> <<>>, clip_path |-> FALSE,
   overflow |-> <<"Visible", "Visible">>, content_box |-> <<2, 2>>,
   inline_layout |-> FALSE]

NodeStyles ==
  { PlainStyle,
    [PlainStyle EXCEPT !.opacity = 0],
    [PlainStyle EXCEPT !.display = "None"],
    [PlainStyle EXCEPT !.scale = <<0, 0>>, !.location = <<1, 0>>],
    [PlainStyle EXCEPT !.transform = << <<"Translate", 1, 0>>, <<"Skew", 1, 1>> >>],
    [PlainStyle EXCEPT !.location = <<1, 2>>, !.rotate = <<1>>,
                       !.scale = <<2, 1>>, !.translate = <<1, 0>>,
                       !.transform = << <<"Scale", 1, 2>> >>,
                       !.overflow = <<"Hidden", "Hidden">>],
    [PlainStyle EXCEPT !.overflow = <<"Hidden", "Visible">>,
                       !.content_box = <<0, 2>>],
    [PlainStyle EXCEPT !.clip_path = TRUE, !.overflow = <<"Hidden", "Hidden">>],
    [PlainStyle EXCEPT !.inline_layout = TRUE] }

RECURSIVE SeqProduct(_)
SeqProduct(sets) ==
  IF sets = <<>> THEN { <<>> }
  ELSE { <<h>> \o t : h \in sets[1], t \in SeqProduct(Tail(sets)) }

\* Every tree of a shape; a shape is the sequence of its children's shapes.
RECURSIVE TreesOf(_)
TreesOf(shape) ==
  { [style |-> s, children |-> cs] :
      s \in NodeStyles,
      cs \in SeqProduct([i \in 1..Len(shape) |-> TreesOf(shape[i])]) }

TreeShapes ==
  { <<>>,                       \* a single node
    << <<>> >>,                 \* a node with one child
    << <<>>, <<>> >>,           \* a node with two children
    << << <<>> >> >>,           \* a chain of three
    << << <<>> >>, <<>> >> }    \* two children, the first with a child

\* A viewport axis is <<px>> when definite and <<>> when not.
Viewports == { <<<<>>, <<>>>>, <<<<3>>, <<>>>>, <<<<>>, <<1>>>>, <<<<3>>, <<1>>>> }

InitRender ==
  /\ comp = "render"
  /\ IdleCall
  /\ IdleBlur
  /\ IdleBreak
  /\ IdleTree
  /\ IdleWebp
  /\ r_pc = "start"
  /\ \/ /\ r_tree \in UNION { TreesOf(shape) : shape \in TreeShapes }
        /\ r_root_size = <<8, 8>>
        /\ r_viewport = <<<<>>, <<>>>>
     \/ /\ r_tree = [style |-> PlainStyle, children |-> <<>>]
        /\ r_root_size \in (0..MaxRootSize4) \X (0..MaxRootSize4)
        /\ r_viewport \in Viewports
  /\ r_result = [kind |-> "none"]
  /\ r_canvases = <<>>
  /\ r_stack = <<>>
  /\ r_log = <<>>
  /\ r_visits = <<>>

\* The size truncated instead of rounded.
RoundToPixels_Truncated(q) == q \div 4

\* f32::round followed by `as u32`, on a non-negative size in quarter pixels.
RoundToPixels(q) == (q + 2) \div 4

\* render, from the computed layout to the first render_node call.
Render ==
  /\ comp = "render"
  /\ r_pc = "start"
  /\ LET root_size == <<RoundToPixels(r_root_size[1]), RoundToPixels(r_root_size[2])>>
         canvas_size == [i \in 1..2 |->
                           IF r_viewport[i] # <<>> THEN r_viewport[i][1]
                           ELSE root_size[i]]
     IN  IF root_size[1] = 0 \/ root_size[2] = 0
         THEN /\ r_result' = [kind |-> "Err", error |-> "InvalidViewport"]
              /\ r_pc' = "done"
              /\ UNCHANGED <<r_canvases, r_stack>>
         ELSE /\ r_canvases' = <<[size |-> canvas_size, ops |-> <<>>,
                                  constraints |-> <<>>]>>
              /\ r_stack' = <<[kind |-> "render", path |-> <<>>,
                               children |-> <<r_tree>>, next |-> 1,
                               transform |-> IDENTITY, pushed |-> FALSE,
                               clip |-> FALSE]>>
              /\ r_pc' = "painting"
              /\ UNCHANGED r_result
  /\ UNCHANGED <<comp, notRender, r_tree, r_root_size, r_viewport, r_log, r_visits>>

Top(stack) == stack[Len(stack)]
Pop(stack) == SubSeq(stack, 1, Len(stack) - 1)
ReplaceTop(stack, e) == [stack EXCEPT ![Len(stack)] = e]

\* The canvases after `ops` are drawn on the innermost one.
Draw(canvases, ops) ==
  ReplaceTop(canvases, [Top(canvases) EXCEPT !.ops = @ \o ops])

\* The early exit without the display check.
ShouldSkip_OpacityOnly(st) == st.opacity = 0

\* The early exit of render_node.
ShouldSkip(st) == st.opacity = 0 \/ st.display = "None"

\* The children visited last to first.
ChildIndex_Reversed(frame) == Len(frame.children) - frame.next + 1

\* The index of the child the loop over taffy.children(node_id) is at.
ChildIndex(frame) == frame.next

\* render_node from its entry up to its first recursive call (or its
\* return, when it returns before one).
RenderNode ==
  /\ comp = "render"
  /\ r_pc = "painting"
  /\ r_stack # <<>>
  /\ Top(r_stack).next <= Len(Top(r_stack).children)
  /\ LET caller == Top(r_stack)
         node == caller.children[ChildIndex(caller)]
         path == Append(caller.path, ChildIndex(caller))
         st == node.style
         resumed == ReplaceTop(r_stack, [caller EXCEPT !.next = @ + 1])
         placed == AffineMul(translation(st.location[1], st.location[2]),
                             caller.transform)
         transform == create_transform(placed, st)
         frame == [kind |-> "node", path |-> path,
                   children |-> IF st.inline_layout THEN <<>> ELSE node.children,
                   next |-> 1, transform |-> transform,
                   pushed |-> FALSE, clip |-> FALSE]
         inline_ops == IF st.inline_layout THEN << <<"inline", path>> >> ELSE <<>>
     IN  IF ShouldSkip(st)
         THEN /\ r_stack' = resumed
              /\ r_visits' = Append(r_visits, [path |-> path, transform |-> <<>>])
              /\ r_log' = Append(r_log, <<"visit", path>>)
              /\ UNCHANGED r_canvases
         ELSE IF ~is_invertible(transform)
         THEN /\ r_stack' = resumed
              /\ r_visits' = Append(r_visits, [path |-> path, transform |-> <<transform>>])
              /\ r_log' = Append(r_log, <<"visit", path>>)
              /\ UNCHANGED r_canvases
         ELSE IF st.clip_path
         THEN /\ r_canvases' =
                   Append(r_canvases,
                          [size |-> st.content_box,
                           ops |-> << <<"draw", path>> >> \o inline_ops,
                           constraints |-> <<>>])
              /\ r_stack' = Append(resumed, [frame EXCEPT !.clip = TRUE])
              /\ r_visits' = Append(r_visits, [path |-> path, transform |-> <<transform>>])
              /\ r_log' = r_log \o << <<"visit", path>>, <<"draw", path>> >> \o inline_ops
         ELSE IF should_clip_content(st.overflow)
                 /\ ~can_create_constrain(st.overflow, st.content_box, transform)
         THEN /\ r_canvases' = Draw(r_canvases, << <<"draw", path>> >>)
              /\ r_stack' = resumed
              /\ r_visits' = Append(r_visits, [path |-> path, transform |-> <<transform>>])
              /\ r_log' = r_log \o << <<"visit", path>>, <<"draw", path>> >>
         ELSE LET clips == should_clip_content(st.overflow)
                  drawn == Draw(r_canvases, << <<"draw", path>> >>)
                  pushed == IF clips
                            THEN ReplaceTop(drawn,
                                   [Top(drawn) EXCEPT !.constraints =
                                      Append(@, [path |-> path, transform |-> transform])])
                            ELSE drawn
              IN  /\ r_canvases' = Draw(pushed, inline_ops)
                  /\ r_stack' = Append(resumed, [frame EXCEPT !.pushed = clips])
                  /\ r_visits' = Append(r_visits, [path |-> path, transform |-> <<transform>>])
                  /\ r_log' = r_log \o << <<"visit", path>>, <<"draw", path>> >>
                                    \o (IF clips THEN << <<"push", path>> >> ELSE <<>>)
                                    \o inline_ops
  /\ UNCHANGED <<comp, notRender, r_pc, r_tree, r_root_size, r_viewport, r_result>>

\* The return without pop_constrain.
RenderNodeReturn_NoPop ==
  /\ comp = "render"
  /\ r_pc = "painting"
  /\ r_stack # <<>>
  /\ Top(r_stack).kind = "node"
  /\ Top(r_stack).next > Len(Top(r_stack).children)
  /\ LET frame == Top(r_stack)
     IN  /\ IF frame.clip
            THEN /\ r_canvases' = Draw(Pop(r_canvases), << <<"mask", frame.path>> >>)
                 /\ r_log' = Append(r_log, <<"mask", frame.path>>)
            ELSE UNCHANGED <<r_canvases, r_log>>
         /\ r_stack' = Pop(r_stack)
  /\ UNCHANGED <<comp, notRender, r_pc, r_tree, r_root_size, r_viewport,
                 r_result, r_visits>>

\* render_node after its last recursive call: the mask blit of the
\* clip-path branch, or pop_constrain, then the return.
RenderNodeReturn ==
  /\ comp = "render"
  /\ r_pc = "painting"
  /\ r_stack # <<>>
  /\ Top(r_stack).kind = "node"
  /\ Top(r_stack).next > Len(Top(r_stack).children)
  /\ LET frame == Top(r_stack)
     IN  /\ IF frame.clip
            THEN /\ r_canvases' = Draw(Pop(r_canvases), << <<"mask", frame.path>> >>)
                 /\ r_log' = Append(r_log, <<"mask", frame.path>>)
            ELSE IF frame.pushed
            THEN /\ r_canvases' = ReplaceTop(r_canvases,
                                    [Top(r_canvases) EXCEPT !.constraints = Pop(@)])
                 /\ r_log' = Append(r_log, <<"pop", frame.path>>)
            ELSE UNCHANGED <<r_canvases, r_log>>
         /\ r_stack' = Pop(r_stack)
  /\ UNCHANGED <<comp, notRender, r_pc, r_tree, r_root_size, r_viewport,
                 r_result, r_visits>>

\* render after render_node returned: Ok(canvas.into_inner()).
RenderFinish ==
  /\ comp = "render"
  /\ r_pc = "painting"
  /\ r_stack # <<>>
  /\ Top(r_stack).kind = "render"
  /\ Top(r_stack).next > Len(Top(r_stack).children)
  /\ r_result' = [kind |-> "Ok", image |-> r_canvases[1]]
  /\ r_stack' = <<>>
  /\ r_pc' = "done"
  /\ UNCHANGED <<comp, notRender, r_tree, r_root_size, r_viewport, r_canvases,
                 r_log, r_visits>>

NextRender == Render \/ RenderNode \/ RenderNodeReturn \/ RenderFinish

SpecRender == InitRender /\ [][NextRender]_vars

IsPrefix(p, q) == Len(p) <= Len(q) /\ SubSeq(q, 1, Len(p)) = p

\* Preorder of the tree: an ancestor before its descendants, an earlier
\* sibling's subtree before a later sibling's.
PathLess(p, q) ==
  \/ Len(p) < Len(q) /\ IsPrefix(p, q)
  \/ \E k \in 1..Min(Len(p), Len(q)) :
       /\ SubSeq(p, 1, k - 1) = SubSeq(q, 1, k - 1)
       /\ p[k] < q[k]

\* The node at a path of the solver's tree.
RECURSIVE TreeNodeAt(_, _)
TreeNodeAt(children, path) ==
  IF Len(path) = 1 THEN children[path[1]]
  ELSE TreeNodeAt(children[path[1]].children, Tail(path))

\* No paint event, canvas operation or constraint belongs to the node at
\* path p or to a node below it, and no node below it was visited.
SubtreeUntouched(p) ==
  /\ \A j \in DOMAIN r_log :
       IsPrefix(p, r_log[j][2]) => r_log[j] = <<"visit", p>>
  /\ \A j \in DOMAIN r_visits :
       IsPrefix(p, r_visits[j].path) => r_visits[j].path = p
  /\ \A c \in DOMAIN r_canvases :
       /\ \A k \in DOMAIN r_canvases[c].ops :
            ~IsPrefix(p, r_canvases[c].ops[k][2])
       /\ \A k \in DOMAIN r_canvases[c].constraints :
            ~IsPrefix(p, r_canvases[c].constraints[k].path)

\* C5: a node whose cumulative transform (parent transform, layout offset,
\* declared transform, rotate, scale, translate) has determinant zero is
\* not painted, and neither is anything below it.
NonInvertibleSubtreeSkipped ==
  comp = "render" =>
    \A i \in DOMAIN r_visits :
      (r_visits[i].transform # <<>>
         /\ determinant(r_visits[i].transform[1]) = 0)
        => SubtreeUntouched(r_visits[i].path)

ScaleZeroSkipped ==
  /\ comp = "render"
  /\ r_pc = "done"
  /\ r_result.kind = "Ok"
  /\ r_result.image.ops # <<>>
  /\ \E i \in DOMAIN r_visits :
       /\ TreeNodeAt(<<r_tree>>, r_visits[i].path).style.scale = <<0, 0>>
       /\ TreeNodeAt(<<r_tree>>, r_visits[i].path).children # <<>>
       /\ r_visits[i].transform # <<>>
       /\ determinant(r_visits[i].transform[1]) = 0

HiddenNode(path) ==
  \/ TreeNodeAt(<<r_tree>>, path).style.opacity = 0
  \/ TreeNodeAt(<<r_tree>>, path).style.display = "None"

\* The node the next render_node call is for.
CalledPath == Append(Top(r_stack).path, ChildIndex(Top(r_stack)))

\* C6: render_node on a node with opacity 0 or display none leaves the
\* canvases (pixels and constraint stacks) as they were, starts no call for
\* a descendant, and nothing of the node's subtree is ever painted.
HiddenSubtreeSkipped ==
  /\ [](comp = "render" =>
          \A i \in DOMAIN r_visits :
            HiddenNode(r_visits[i].path) => SubtreeUntouched(r_visits[i].path))
  /\ [][(comp = "render" /\ r_pc = "painting" /\ r_visits' # r_visits
           /\ HiddenNode(CalledPath))
          => /\ r_canvases' = r_canvases
             /\ Len(r_stack') = Len(r_stack)
             /\ r_log' = Append(r_log, <<"visit", CalledPath>>)]_vars

HiddenNodeVisited ==
  /\ comp = "render"
  /\ r_pc = "done"
  /\ r_result.kind = "Ok"
  /\ r_result.image.ops # <<>>
  /\ \E i, j \in DOMAIN r_visits :
       /\ TreeNodeAt(<<r_tree>>, r_visits[i].path).style.opacity = 0
       /\ TreeNodeAt(<<r_tree>>, r_visits[i].path).children # <<>>
       /\ TreeNodeAt(<<r_tree>>, r_visits[j].path).style.display = "None"

\* C7: painting is depth-first in the solver's child order: the calls of
\* render_node follow the preorder of the tree, a node's children are
\* called first to last without a gap, and a node's own box is drawn
\* before any call for one of its children.
PaintOrderDepthFirst ==
  comp = "render" =>
    /\ \A i, j \in DOMAIN r_visits :
         i < j => PathLess(r_visits[i].path, r_visits[j].path)
    /\ \A j \in DOMAIN r_visits :
         LET p == r_visits[j].path
         IN  p[Len(p)] > 1 =>
               \E i \in 1..(j - 1) :
                 r_visits[i].path = [p EXCEPT ![Len(p)] = @ - 1]
    /\ \A j \in DOMAIN r_log :
         (r_log[j][1] = "visit" /\ Len(r_log[j][2]) > 1) =>
           \E i \in 1..(j - 1) :
             r_log[i] = <<"draw", SubSeq(r_log[j][2], 1, Len(r_log[j][2]) - 1)>>

WholeTreePainted ==
  /\ comp = "render"
  /\ r_pc = "done"
  /\ Len(r_visits) = 4
  /\ r_visits[2].path = <<1, 1>>
  /\ r_visits[3].path = <<1, 1, 1>>
  /\ r_visits[4].path = <<1, 2>>
  /\ \A i \in 1..4 : \E j \in DOMAIN r_log : r_log[j] = <<"draw", r_visits[i].path>>

\* C8: render returns Err(InvalidViewport), with no canvas made and no node
\* painted, exactly when the root's layout width or height is below half a
\* pixel (rounds to 0); otherwise it paints the tree from the root and
\* returns Ok with the canvas.
InvalidViewportIffEmptyRoot ==
  comp = "render" =>
    /\ r_pc = "start" => r_result = [kind |-> "none"]
    /\ r_pc = "painting" =>
         r_result = [kind |-> "none"] /\ r_root_size[1] >= 2 /\ r_root_size[2] >= 2
    /\ r_pc = "done" =>
         IF r_root_size[1] < 2 \/ r_root_size[2] < 2
         THEN /\ r_result = [kind |-> "Err", error |-> "InvalidViewport"]
              /\ r_canvases = <<>>
              /\ r_log = <<>>
              /\ r_visits = <<>>
         ELSE /\ r_result.kind = "Ok"
              /\ Len(r_canvases) = 1
              /\ r_result = [kind |-> "Ok", image |-> r_canvases[1]]
              /\ r_visits # <<>>
              /\ r_visits[1].path = <<1>>

InvalidViewportReturned ==
  /\ comp = "render"
  /\ r_pc = "done"
  /\ r_result = [kind |-> "Err", error |-> "InvalidViewport"]
  /\ r_root_size[1] >= 2
  /\ r_root_size[2] = 1

(***************************************************************************)
(* The animated WebP muxer: encode_animated_webp.  Byte vectors are        *)
(* sequences of 0..255; a frame is [width, height, duration_ms, encoded]   *)
(* where encoded is what the still-image encoder returned for the frame's  *)
(* image: [ok |-> FALSE] or [ok |-> TRUE, buf |-> its RIFF buffer].        *)
(***************************************************************************)
U24_MAX == 16777215

RIFF == <<82, 73, 70, 70>>
WEBP == <<87, 69, 66, 80>>
VP8X == <<86, 80, 56, 88>>
ANIM == <<65, 78, 73, 77>>
ANMF == <<65, 78, 77, 70>>
VP8L == <<86, 80, 56, 76>>
VP8_ == <<86, 80, 56, 32>>
ICCP == <<73, 67, 67, 80>>

\* u32::to_le_bytes, u16::to_le_bytes and u32::from_le_bytes
to_le_bytes(v) ==
  <<v % 256, (v \div 256) % 256, (v \div 65536) % 256, (v \div 16777216) % 256>>
to_le_bytes16(v) == <<v % 256, (v \div 256) % 256>>
from_le_bytes(b) == b[1] + 256 * b[2] + 65536 * b[3] + 16777216 * b[4]

\* buf[from..to]
Slice(buf, from, to) == SubSeq(buf, from + 1, to)

Zeros(n) == [i \in 1..n |-> 0]

clamp(v, lo, hi) == IF v < lo THEN lo ELSE IF v > hi THEN hi ELSE v

\* The `while i + 8 <= buf.len()` loop of extract_vp8_payload.
RECURSIVE extract_loop(_, _)
extract_loop(buf, i) ==
  IF ~(i + 8 <= Len(buf)) THEN [ok |-> FALSE]
  ELSE LET len == from_le_bytes(Slice(buf, i + 4, i + 8))
           start == i + 8
           end == start + len
       IN  IF end > Len(buf) THEN [ok |-> FALSE]
           ELSE IF Slice(buf, i, i + 4) = VP8L \/ Slice(buf, i, i + 4) = VP8_
           THEN [ok |-> TRUE, payload |-> Slice(buf, start, end)]
           ELSE extract_loop(buf, end + (len % 2))

extract_vp8_payload(buf) == extract_loop(buf, 12)

\* A RIFF chunk and a still image file as the encoder lays them out.
Chunk(tag, payload) ==
  tag \o to_le_bytes(Len(payload)) \o payload \o Zeros(Len(payload) % 2)
StillFile(chunks) == RIFF \o to_le_bytes(4 + Len(chunks)) \o WEBP \o chunks

EncodedStills ==
  { [ok |-> TRUE, buf |-> StillFile(Chunk(VP8L, <<47>>))],
    [ok |-> TRUE, buf |-> StillFile(Chunk(VP8L, <<47, 7>>))] }

OddStills ==
  { [ok |-> TRUE, buf |-> StillFile(Chunk(ICCP, <<9>>) \o Chunk(VP8L, <<47, 1, 2>>))],
    [ok |-> TRUE, buf |-> StillFile(Chunk(VP8_, <<3, 4>>))],
    [ok |-> TRUE, buf |-> StillFile(Chunk(ICCP, <<9, 9>>))],
    [ok |-> FALSE] }

Durations == {0, 100, 16777215, 16777216, 16777316, 2147483647}

FrameInputs ==
  { [width |-> 1, height |-> 2, duration_ms |-> d, encoded |-> e] :
      d \in Durations, e \in EncodedStills }
    \cup { [width |-> 300, height |-> 1, duration_ms |-> 100, encoded |-> e] :
             e \in OddStills }

MuxArguments ==
  { <<FALSE, FALSE, <<>>>>, <<TRUE, FALSE, <<3>>>>, <<TRUE, TRUE, <<0>>>> }

InitWebp ==
  /\ comp = "webp"
  /\ IdleCall
  /\ IdleBlur
  /\ IdleBreak
  /\ IdleTree
  /\ IdleRender
  /\ w_pc = "start"
  /\ w_frames \in SeqsUpTo(FrameInputs, MaxFrames) \ { <<>> }
  /\ \E args \in MuxArguments :
       /\ w_blend = args[1]
       /\ w_dispose = args[2]
       /\ w_loop_count = args[3]
  /\ w_output = <<>>
  /\ w_next = 1
  /\ w_destination = <<>>
  /\ w_result = "none"

\* encode_animated_webp up to the ANMF loop: every frame is encoded (the
\* first failure is returned), then the VP8X and ANIM chunks are laid out.
WebpHeader ==
  /\ comp = "webp"
  /\ w_pc = "start"
  /\ IF \E i \in DOMAIN w_frames : ~w_frames[i].encoded.ok
     THEN /\ w_result' = "Err"
          /\ w_pc' = "done"
          /\ UNCHANGED w_output
     ELSE /\ w_output' =
               VP8X \o to_le_bytes(10) \o <<18>> \o Zeros(3)
                 \o Slice(to_le_bytes(w_frames[1].width - 1), 0, 3)
                 \o Slice(to_le_bytes(w_frames[1].height - 1), 0, 3)
                 \o ANIM \o to_le_bytes(6) \o Zeros(4)
                 \o to_le_bytes16(IF w_loop_count = <<>> THEN 0 ELSE w_loop_count[1])
          /\ w_pc' = "frames"
          /\ UNCHANGED w_result
  /\ UNCHANGED <<comp, notWebp, w_frames, w_blend, w_dispose, w_loop_count,
                 w_next, w_destination>>

\* The duration truncated to its low 24 bits instead of clamped.
DurationField_Truncated(duration_ms) ==
  Slice(to_le_bytes(duration_ms), 0, 3)

\* The duration field of the frame header.
DurationField(duration_ms) ==
  Slice(to_le_bytes(clamp(duration_ms, 0, U24_MAX)), 0, 3)

\* The chunks assembled so far written out when a payload is missing.
WebpFrame_PartialOnError ==
  /\ comp = "webp"
  /\ w_pc = "frames"
  /\ w_next <= Len(w_frames)
  /\ LET frame == w_frames[w_next]
         extracted == extract_vp8_payload(frame.encoded.buf)
         frame_flags == (IF w_blend THEN 2 ELSE 0) + (IF w_dispose THEN 1 ELSE 0)
     IN  IF ~extracted.ok
         THEN /\ w_result' = "Err"
              /\ w_pc' = "done"
              /\ w_destination' =
                   RIFF \o to_le_bytes(4 + Len(w_output)) \o WEBP \o w_output
              /\ UNCHANGED <<w_output, w_next>>
         ELSE LET vp8_payload == extracted.payload
                  payload_padded == Len(vp8_payload) + (Len(vp8_payload) % 2)
                  anmf_size == 16 + 4 + 4 + payload_padded
              IN  /\ w_output' =
                       w_output \o ANMF \o to_le_bytes(anmf_size)
                         \o Zeros(6)
                         \o Slice(to_le_bytes(frame.width - 1), 0, 3)
                         \o Slice(to_le_bytes(frame.height - 1), 0, 3)
                         \o DurationField(frame.duration_ms)
                         \o <<frame_flags>>
                         \o VP8L \o to_le_bytes(Len(vp8_payload)) \o vp8_payload
                         \o Zeros(Len(vp8_payload) % 2)
                  /\ w_next' = w_next + 1
                  /\ UNCHANGED <<w_pc, w_result, w_destination>>
  /\ UNCHANGED <<comp, notWebp, w_frames, w_blend, w_dispose, w_loop_count>>

\* One turn of the ANMF loop.
WebpFrame ==
  /\ comp = "webp"
  /\ w_pc = "frames"
  /\ w_next <= Len(w_frames)
  /\ LET frame == w_frames[w_next]
         extracted == extract_vp8_payload(frame.encoded.buf)
         frame_flags == (IF w_blend THEN 2 ELSE 0) + (IF w_dispose THEN 1 ELSE 0)
     IN  IF ~extracted.ok
         THEN /\ w_result' = "Err"
              /\ w_pc' = "done"
              /\ UNCHANGED <<w_output, w_next>>
         ELSE LET vp8_payload == extracted.payload
                  payload_padded == Len(vp8_payload) + (Len(vp8_payload) % 2)
                  anmf_size == 16 + 4 + 4 + payload_padded
              IN  /\ w_output' =
                       w_output \o ANMF \o to_le_bytes(anmf_size)
                         \o Zeros(6)
                         \o Slice(to_le_bytes(frame.width - 1), 0, 3)
                         \o Slice(to_le_bytes(frame.height - 1), 0, 3)
                         \o DurationField(frame.duration_ms)
                         \o <<frame_flags>>
                         \o VP8L \o to_le_bytes(Len(vp8_payload)) \o vp8_payload
                         \o Zeros(Len(vp8_payload) % 2)
                  /\ w_next' = w_next + 1
                  /\ UNCHANGED <<w_pc, w_result>>
  /\ UNCHANGED <<comp, notWebp, w_frames, w_blend, w_dispose, w_loop_count,
                 w_destination>>

\* The RIFF size written without the 4 bytes of the 'WEBP' tag.
WebpWrite_SizeWithoutTag ==
  /\ comp = "webp"
  /\ w_pc = "frames"
  /\ w_next > Len(w_frames)
  /\ w_destination' = RIFF \o to_le_bytes(Len(w_output)) \o WEBP \o w_output
  /\ w_result' = "Ok"
  /\ w_pc' = "done"
  /\ UNCHANGED <<comp, notWebp, w_frames, w_blend, w_dispose, w_loop_count,
                 w_output, w_next>>

\* The RIFF header and the chunks written to the destination.
WebpWrite ==
  /\ comp = "webp"
  /\ w_pc = "frames"
  /\ w_next > Len(w_frames)
  /\ w_destination' = RIFF \o to_le_bytes(4 + Len(w_output)) \o WEBP \o w_output
  /\ w_result' = "Ok"
  /\ w_pc' = "done"
  /\ UNCHANGED <<comp, notWebp, w_frames, w_blend, w_dispose, w_loop_count,
                 w_output, w_next>>

NextWebp == WebpHeader \/ WebpFrame \/ WebpWrite

SpecWebp == InitWebp /\ [][NextWebp]_vars

\* Reading a RIFF container back: the chunks after the 12-byte header, as
\* <<tag, payload>> pairs.
RECURSIVE ReadChunks(_, _)
ReadChunks(bytes, i) ==
  IF i + 8 > Len(bytes) THEN <<>>
  ELSE LET size == from_le_bytes(Slice(bytes, i + 4, i + 8))
       IN  << <<Slice(bytes, i, i + 4), Slice(bytes, i + 8, i + 8 + size)>> >>
             \o ReadChunks(bytes, i + 8 + size + (size % 2))

\* The animation frames of a container: one per ANMF chunk, with the
\* fields of its 16-byte frame header.
RECURSIVE ReadFrames(_)
ReadFrames(chunks) ==
  IF chunks = <<>> THEN <<>>
  ELSE (IF chunks[1][1] = ANMF
        THEN <<[width |-> from_le_bytes(Slice(chunks[1][2], 6, 9) \o <<0>>) + 1,
                height |-> from_le_bytes(Slice(chunks[1][2], 9, 12) \o <<0>>) + 1,
                duration |-> from_le_bytes(Slice(chunks[1][2], 12, 15) \o <<0>>),
                flags |-> chunks[1][2][16]]>>
        ELSE <<>>) \o ReadFrames(Tail(chunks))

DecodedFrames == ReadFrames(ReadChunks(w_destination, 12))

\* C9: every ANMF frame header written carries, as its 24-bit duration,
\* min(duration_ms, 2^24 - 1) of the frame it was written for.
DurationClamped ==
  (comp = "webp" /\ w_result = "Ok") =>
    /\ Len(DecodedFrames) = Len(w_frames)
    /\ \A i \in DOMAIN w_frames :
         DecodedFrames[i].duration = Min(w_frames[i].duration_ms, 16777215)

LongDurationWritten ==
  /\ comp = "webp"
  /\ w_result = "Ok"
  /\ \E i, j \in DOMAIN w_frames :
       /\ w_frames[i].duration_ms > 16777215
       /\ DecodedFrames[i].duration = 16777215
       /\ w_frames[j].duration_ms = 100
       /\ DecodedFrames[j].duration = 100

\* C10 as stated: a single frame f gives a container with exactly one
\* frame whose stored duration is f.duration_ms mod 2^24.
SingleFrameDurationModulo ==
  (comp = "webp" /\ w_result = "Ok" /\ Len(w_frames) = 1) =>
    /\ Len(DecodedFrames) = 1
    /\ DecodedFrames[1].duration = w_frames[1].duration_ms % 16777216

\* C10 as amended: a single frame f gives a container with exactly one
\* frame whose stored duration is f.duration_ms when that is below 2^24
\* (where it equals f.duration_ms mod 2^24) and 2^24 - 1 otherwise.
SingleFrameDurationSaturated ==
  (comp = "webp" /\ w_result = "Ok" /\ Len(w_frames) = 1) =>
    /\ Len(DecodedFrames) = 1
    /\ DecodedFrames[1].duration =
         IF w_frames[1].duration_ms < 16777216
         THEN w_frames[1].duration_ms % 16777216
         ELSE 16777215

SingleLongFrameWritten ==
  /\ comp = "webp"
  /\ w_result = "Ok"
  /\ Len(w_frames) = 1
  /\ w_frames[1].duration_ms = 16777316
  /\ Len(DecodedFrames) = 1

(***************************************************************************)
(* Still and animated PNG output (rendering/write.rs).  An RgbaImage is    *)
(* [width, height, raw] with raw its bytes, four per pixel, row major.     *)
(* The PNG encoder is followed by what it has been told: the colour type   *)
(* and animation control it declared and the image data handed to it.      *)
(***************************************************************************)
U16_MAX == 65535

RgbaPixels == { <<10, 20, 30, 255>>, <<40, 50, 60, 255>>, <<70, 80, 90, 0>>,
                <<1, 2, 3, 128>> }

\* Every image of w x h pixels drawn from a set of pixels.
RgbaImages(w, h, px) ==
  { [width |-> w, height |-> h, raw |-> Flatten(ps)] :
      ps \in SeqProduct([i \in 1..(w * h) |-> px]) }

ApngImages ==
  RgbaImages(1, 1, {<<10, 20, 30, 255>>, <<1, 2, 3, 128>>})
    \cup RgbaImages(2, 1, {<<40, 50, 60, 255>>})

ApngDurations == {0, 40, 100, 65535, 65536, 70000}

ApngFrames ==
  { [image |-> im, duration_ms |-> d] : im \in ApngImages, d \in ApngDurations }

InitApng ==
  /\ comp = "apng"
  /\ IdleBlur
  /\ IdleBreak
  /\ IdleTree
  /\ IdleRender
  /\ IdleWebp
  /\ f_pc = "start"
  /\ f_input \in
       { [frames |-> fs, loop_count |-> lc] :
           fs \in SeqsUpTo(ApngFrames, MaxFrames) \ { <<>> },
           lc \in { <<>>, <<0>>, <<3>> } }
  /\ f_output = <<>>

\* The minimum over the frames (0 for none).
RECURSIVE min_duration_ms(_)
min_duration_ms(frames) ==
  IF frames = <<>> THEN 0
  ELSE IF Len(frames) = 1 THEN frames[1].duration_ms
  ELSE Min(frames[1].duration_ms, min_duration_ms(Tail(frames)))

\* The delay numerator cast to u16 without the clamp.
FrameDelay_Wrapped(frames) == min_duration_ms(frames) % 65536

\* min_duration_ms.clamp(0, u16::MAX as u32) as u16
FrameDelay(frames) == clamp(min_duration_ms(frames), 0, U16_MAX)

\* encode_animated_png up to write_header: the encoder is made for the
\* first frame's size and told the frame count, the plays and the delay.
ApngHeader ==
  /\ comp = "apng"
  /\ f_pc = "start"
  /\ f_output' =
       [width |-> f_input.frames[1].image.width,
        height |-> f_input.frames[1].image.height,
        color |-> "Rgba",
        num_frames |-> Len(f_input.frames),
        num_plays |-> IF f_input.loop_count = <<>> THEN 0
                      ELSE f_input.loop_count[1],
        delay |-> <<FrameDelay(f_input.frames), 1000>>,
        written |-> <<>>,
        result |-> "none"]
  /\ f_pc' = "frames"
  /\ UNCHANGED <<comp, notCall, f_input>>

\* One write_image_data call: the encoder takes the data of a frame of its
\* own size under the declared delay and refuses any other.
ApngFrame ==
  /\ comp = "apng"
  /\ f_pc = "frames"
  /\ Len(f_output.written) < Len(f_input.frames)
  /\ LET frame == f_input.frames[Len(f_output.written) + 1]
     IN  IF Len(frame.image.raw) = f_output.width * f_output.height * 4
         THEN /\ f_output' =
                   [f_output EXCEPT !.written =
                      Append(@, [delay |-> f_output.delay,
                                 data |-> frame.image.raw])]
              /\ UNCHANGED f_pc
         ELSE /\ f_output' = [f_output EXCEPT !.result = "Err"]
              /\ f_pc' = "done"
  /\ UNCHANGED <<comp, notCall, f_input>>

\* writer.finish() and the Ok(()) return.
ApngFinish ==
  /\ comp = "apng"
  /\ f_pc = "frames"
  /\ Len(f_output.written) = Len(f_input.frames)
  /\ f_output' = [f_output EXCEPT !.result = "Ok"]
  /\ f_pc' = "done"
  /\ UNCHANGED <<comp, notCall, f_input>>

NextApng == ApngHeader \/ ApngFrame \/ ApngFinish

SpecApng == InitApng /\ [][NextApng]_vars

\* The smallest duration of the input, found without the code's fold.
SmallestDuration ==
  CHOOSE d \in { f_input.frames[i].duration_ms : i \in DOMAIN f_input.frames } :
    \A i \in DOMAIN f_input.frames : d <= f_input.frames[i].duration_ms

\* C11: encode_animated_png on k >= 1 frames declares exactly k animation
\* frames and the one delay min(duration_ms)/1000 s, its numerator capped
\* at 65535; every frame written carries that delay, the data written is
\* the frames' pixel data in input order, and it is all of it on Ok.
ApngDeclaresFramesAndDelay ==
  (comp = "apng" /\ f_pc # "start") =>
    /\ f_output.num_frames = Len(f_input.frames)
    /\ f_output.delay =
         <<IF SmallestDuration > 65535 THEN 65535 ELSE SmallestDuration, 1000>>
    /\ Len(f_output.written) <= Len(f_input.frames)
    /\ \A i \in DOMAIN f_output.written :
         /\ f_output.written[i].data = f_input.frames[i].image.raw
         /\ f_output.written[i].delay = f_output.delay
    /\ f_output.result = "Ok" => Len(f_output.written) = Len(f_input.frames)

ApngLongFramesWritten ==
  /\ comp = "apng"
  /\ f_pc = "done"
  /\ f_output.result = "Ok"
  /\ Len(f_input.frames) = 2
  /\ f_input.frames[1].duration_ms = 70000
  /\ f_input.frames[2].duration_ms = 65536
  /\ f_input.frames[1].image # f_input.frames[2].image
  /\ f_output.delay = <<65535, 1000>>

\* strip_alpha_channel: the first three bytes of every four.
RECURSIVE strip_alpha_channel(_)
strip_alpha_channel(raw) ==
  IF Len(raw) < 4 THEN <<>>
  ELSE SubSeq(raw, 1, 3) \o strip_alpha_channel(SubSeq(raw, 5, Len(raw)))

\* Only the first pixel's alpha is looked at.
has_any_alpha_pixel_FirstOnly(raw) == Len(raw) >= 4 /\ raw[4] # 255

\* has_any_alpha_pixel: some four-byte chunk has an alpha byte below 255.
has_any_alpha_pixel(raw) ==
  \E k \in 0..((Len(raw) \div 4) - 1) : raw[4 * k + 4] # 255

PngImages ==
  UNION { RgbaImages(w, 1, RgbaPixels) : w \in 1..MaxPngPixels }
    \cup RgbaImages(1, 2, RgbaPixels)

InitPng ==
  /\ comp = "png"
  /\ IdleBlur
  /\ IdleBreak
  /\ IdleTree
  /\ IdleRender
  /\ IdleWebp
  /\ f_pc = "start"
  /\ f_input \in PngImages
  /\ f_output = <<>>

\* write_image with ImageOutputFormat::Png: the colour type and the image
\* data handed to the PNG encoder.
WritePng ==
  /\ comp = "png"
  /\ f_pc = "start"
  /\ LET has_alpha == has_any_alpha_pixel(f_input.raw)
         image_data == IF has_alpha THEN f_input.raw
                       ELSE strip_alpha_channel(f_input.raw)
     IN  f_output' = [width |-> f_input.width, height |-> f_input.height,
                      color |-> IF has_alpha THEN "Rgba" ELSE "Rgb",
                      data |-> image_data, result |-> "Ok"]
  /\ f_pc' = "done"
  /\ UNCHANGED <<comp, notCall, f_input>>

NextPng == WritePng

SpecPng == InitPng /\ [][NextPng]_vars

\* The alpha of pixel k (from 1) of the written image.
AlphaOf(k) == f_input.raw[4 * k]

\* C12: a PNG is written as RGB, three bytes per pixel holding each
\* pixel's R, G, B in pixel order, exactly when every pixel has alpha 255;
\* with one pixel below 255 it is written as RGBA with the raw buffer.
PngStripsAlphaIffOpaque ==
  (comp = "png" /\ f_pc = "done") =>
    LET n == f_input.width * f_input.height
    IN  IF \A k \in 1..n : AlphaOf(k) = 255
        THEN /\ f_output.color = "Rgb"
             /\ Len(f_output.data) = 3 * n
             /\ \A k \in 1..n : \A c \in 1..3 :
                  f_output.data[3 * (k - 1) + c] = f_input.raw[4 * (k - 1) + c]
        ELSE /\ f_output.color = "Rgba"
             /\ f_output.data = f_input.raw

PngOpaqueStripped ==
  /\ comp = "png"
  /\ f_pc = "done"
  /\ f_input.width = 2
  /\ f_input.raw = <<10, 20, 30, 255, 40, 50, 60, 255>>
  /\ f_output.data = <<10, 20, 30, 40, 50, 60>>

(***************************************************************************)
(* Affine::invert.  The entries of the argument are integer multiples of   *)
(* 2^-12, so its determinant is a multiple of 2^-24 and f32::EPSILON,      *)
(* 2^-23, is EPSILON_DET of those.  A quotient is kept exact as the pair   *)
(* <<numerator, denominator>>; the powers of 2^-12 cancel in a product of  *)
(* a transform with its inverse.                                           *)
(***************************************************************************)
EPSILON_DET == 2

QAdd(p, q) == <<p[1] * q[2] + q[1] * p[2], p[2] * q[2]>>
QMul(p, q) == <<p[1] * q[1], p[2] * q[2]>>
QEq(p, q) == p[1] * q[2] = q[1] * p[2]
QOf(n) == <<n, 1>>

\* impl Mul<Affine> for Affine, on exact quotients.
AffineMulQ(self, rhs) ==
  Affine(QAdd(QMul(self.a, rhs.a), QMul(self.b, rhs.c)),
         QAdd(QMul(self.a, rhs.b), QMul(self.b, rhs.d)),
         QAdd(QMul(self.c, rhs.a), QMul(self.d, rhs.c)),
         QAdd(QMul(self.c, rhs.b), QMul(self.d, rhs.d)),
         QAdd(QAdd(QMul(self.x, rhs.a), QMul(self.y, rhs.c)), rhs.x),
         QAdd(QAdd(QMul(self.x, rhs.b), QMul(self.y, rhs.d)), rhs.y))

AffineQ(t) == Affine(QOf(t.a), QOf(t.b), QOf(t.c), QOf(t.d), QOf(t.x), QOf(t.y))

AffineEqQ(s, t) ==
  /\ QEq(s.a, t.a) /\ QEq(s.b, t.b) /\ QEq(s.c, t.c)
  /\ QEq(s.d, t.d) /\ QEq(s.x, t.x) /\ QEq(s.y, t.y)

\* The inverse with the x entry divided by det instead of -det.
invert_UnsignedX(t) ==
  LET det == determinant(t)
  IN  IF Abs(det) < EPSILON_DET THEN <<>>
      ELSE <<Affine(<<t.d, det>>, <<t.b, -det>>, <<t.c, -det>>, <<t.a, det>>,
                    <<t.d * t.x - t.c * t.y, det>>,
                    <<t.b * t.x - t.a * t.y, det>>)>>

\* Affine::invert; None is <<>> and Some(t) is <<t>>.
invert(t) ==
  LET det == determinant(t)
  IN  IF Abs(det) < EPSILON_DET THEN <<>>
      ELSE <<Affine(<<t.d, det>>, <<t.b, -det>>, <<t.c, -det>>, <<t.a, det>>,
                    <<t.d * t.x - t.c * t.y, -det>>,
                    <<t.b * t.x - t.a * t.y, det>>)>>

Affines ==
  { Affine(a, b, c, d, x, y) :
      a \in -MaxEntry..MaxEntry, b \in -MaxEntry..MaxEntry,
      c \in -MaxEntry..MaxEntry, d \in -MaxEntry..MaxEntry,
      x \in {-1, 0, MaxEntry}, y \in {-1, 0, MaxEntry} }

InitInvert ==
  /\ comp = "invert"
  /\ IdleBlur
  /\ IdleBreak
  /\ IdleTree
  /\ IdleRender
  /\ IdleWebp
  /\ f_pc = "start"
  /\ f_input \in Affines
  /\ f_output = <<>>

Invert ==
  /\ comp = "invert"
  /\ f_pc = "start"
  /\ f_output' = invert(f_input)
  /\ f_pc' = "done"
  /\ UNCHANGED <<comp, notCall, f_input>>

NextInvert == Invert

SpecInvert == InitInvert /\ [][NextInvert]_vars

T_default == 0

DEFAULT_INHERIT == [color |-> TRUE, width |-> FALSE]

\* The default that never inherits.
CssValue_default_Initial(default_inherit) == <<"Initial">>

\* impl Default for CssValue
CssValue_default(default_inherit) ==
  IF default_inherit THEN <<"Inherit">> ELSE <<"Initial">>

\* CssValue::inherit_value
inherit_value(self, parent) ==
  CASE self[1] = "Value" -> self[2]
    [] self[1] = "Inherit" -> parent
    [] OTHER -> T_default

\* The Style a node holds: every field it does not set is the default.
take_style(declared) ==
  [p \in DOMAIN declared |->
     IF declared[p] = <<>> THEN CssValue_default(DEFAULT_INHERIT[p])
     ELSE declared[p]]

\* Style::inherit: every field resolved against the parent's field.
StyleInherit(style, parent_style) ==
  [p \in DOMAIN style |-> inherit_value(style[p], parent_style[p])]

\* InheritedStyle::default()
InheritedStyleDefault == [color |-> T_default, width |-> T_default]

DeclaredStyles ==
  { [color |-> c, width |-> w] :
      c \in { <<>>, <<"Inherit">>, <<"Initial">>, <<"Value", 1>>, <<"Value", 2>> },
      w \in { <<>>, <<"Inherit">>, <<"Value", 1>> } }

InitInherit ==
  /\ comp = "inherit"
  /\ IdleBlur
  /\ IdleBreak
  /\ IdleTree
  /\ IdleRender
  /\ IdleWebp
  /\ f_pc = "start"
  /\ f_input \in SeqsUpTo(DeclaredStyles, MaxChain) \ { <<>> }
  /\ f_output = <<>>

\* from_node's first statement for the next node down the chain: its
\* style resolved against its parent's resolved style.
InheritStyle ==
  /\ comp = "inherit"
  /\ f_pc = "start"
  /\ Len(f_output) < Len(f_input)
  /\ LET i == Len(f_output) + 1
         parent_style == IF i = 1 THEN InheritedStyleDefault ELSE f_output[i - 1]
     IN  f_output' = Append(f_output, StyleInherit(take_style(f_input[i]), parent_style))
  /\ f_pc' = IF Len(f_output) + 1 = Len(f_input) THEN "done" ELSE "start"
  /\ UNCHANGED <<comp, notCall, f_input>>

NextInherit == InheritStyle

SpecInherit == InitInherit /\ [][NextInherit]_vars

\* The resolved style of node i's parent.
ParentResolved(i) == IF i = 1 THEN [color |-> 0, width |-> 0] ELSE f_output[i - 1]

\* C14: Value(v) resolves to v, Inherit to the parent's resolved value and
\* Initial to the default; an unset property resolves as Inherit when it
\* is DEFAULT_INHERIT (color) and as Initial otherwise (width); so an
\* unset color below an ancestor that sets a value, with nothing but unset
\* colors in between, is that value.
CascadeResolves ==
  comp = "inherit" =>
    \A i \in DOMAIN f_output :
      /\ \A p \in {"color", "width"} :
           LET css == f_input[i][p]
           IN  /\ (css # <<>> /\ css[1] = "Value") => f_output[i][p] = css[2]
               /\ css = <<"Inherit">> => f_output[i][p] = ParentResolved(i)[p]
               /\ css = <<"Initial">> => f_output[i][p] = 0
      /\ f_input[i].color = <<>> => f_output[i].color = ParentResolved(i).color
      /\ f_input[i].width = <<>> => f_output[i].width = 0
      /\ \A j \in 1..(i - 1) :
           ( /\ f_input[j].color # <<>>
             /\ f_input[j].color[1] = "Value"
             /\ \A k \in (j + 1)..i : f_input[k].color = <<>> )
           => f_output[i].color = f_input[j].color[2]

UnsetColorInherited ==
  /\ comp = "inherit"
  /\ f_pc = "done"
  /\ Len(f_input) = 3
  /\ f_input[1].color = <<"Value", 2>>
  /\ f_input[2].color = <<>>
  /\ f_input[3].color = <<>>
  /\ f_input[1].width = <<"Value", 1>>
  /\ f_input[2].width = <<>>
  /\ f_output[3] = [color |-> 2, width |-> 0]

(***************************************************************************)
(* Property parsers.  The input of a parser is the sequence of tokens the  *)
(* tokenizer yields: <<"ident", name>>, <<"number", n>> for the number n,  *)
(* <<"px", n>>, <<"percentage", p>> for p%, and <<"comma">>.  A parser     *)
(* returns [ok |-> FALSE] or [ok |-> TRUE, value, rest], rest being the    *)
(* tokens it has not consumed.  A PercentageNumber is kept in hundredths.  *)
(***************************************************************************)
ParseError == [ok |-> FALSE]
Parsed(value, rest) == [ok |-> TRUE, value |-> value, rest |-> rest]

\* f32::max(0.0), on hundredths
Max0(v) == IF v < 0 THEN 0 ELSE v

\* The value taken as it is, negative or not.
PercentageNumber_from_css_Unclamped(input) ==
  IF input = <<>> THEN ParseError
  ELSE CASE input[1][1] = "number" -> Parsed(100 * input[1][2], Tail(input))
         [] input[1][1] = "percentage" -> Parsed(input[1][2], Tail(input))
         [] OTHER -> ParseError

\* PercentageNumber::from_css: a number n is n, a percentage p% is p/100.
PercentageNumber_from_css(input) ==
  IF input = <<>> THEN ParseError
  ELSE CASE input[1][1] = "number" -> Parsed(Max0(100 * input[1][2]), Tail(input))
         [] input[1][1] = "percentage" -> Parsed(Max0(input[1][2]), Tail(input))
         [] OTHER -> ParseError

\* LengthUnit::from_css: a bare number is a length in px.
LengthUnit_from_css(input) ==
  IF input = <<>> THEN ParseError
  ELSE CASE input[1] = <<"ident", "auto">> -> Parsed(<<"Auto">>, Tail(input))
         [] input[1][1] = "px" -> Parsed(<<"Px", input[1][2]>>, Tail(input))
         [] input[1][1] = "number" -> Parsed(<<"Px", input[1][2]>>, Tail(input))
         [] input[1][1] = "percentage" ->
              Parsed(<<"Percentage", input[1][2]>>, Tail(input))
         [] OTHER -> ParseError

\* Parser::expect_comma
expect_comma(input) ==
  IF input # <<>> /\ input[1] = <<"comma">> THEN Parsed(<<>>, Tail(input))
  ELSE ParseError

\* The second length ignored: the first is used for both axes.
BackgroundSize_from_css_FirstOnly(input) ==
  IF input # <<>> /\ input[1] = <<"ident", "cover">>
  THEN Parsed(<<"Cover">>, Tail(input))
  ELSE IF input # <<>> /\ input[1] = <<"ident", "contain">>
  THEN Parsed(<<"Contain">>, Tail(input))
  ELSE LET first == LengthUnit_from_css(input)
       IN  IF ~first.ok THEN ParseError
           ELSE LET second == LengthUnit_from_css(first.rest)
                IN  IF ~second.ok
                    THEN Parsed(<<"Explicit", first.value, first.value>>, first.rest)
                    ELSE Parsed(<<"Explicit", first.value, first.value>>, second.rest)

\* BackgroundSize::from_css
BackgroundSize_from_css(input) ==
  IF input # <<>> /\ input[1] = <<"ident", "cover">>
  THEN Parsed(<<"Cover">>, Tail(input))
  ELSE IF input # <<>> /\ input[1] = <<"ident", "contain">>
  THEN Parsed(<<"Contain">>, Tail(input))
  ELSE LET first == LengthUnit_from_css(input)
       IN  IF ~first.ok THEN ParseError
           ELSE LET second == LengthUnit_from_css(first.rest)
                IN  IF ~second.ok
                    THEN Parsed(<<"Explicit", first.value, first.value>>, first.rest)
                    ELSE Parsed(<<"Explicit", first.value, second.value>>, second.rest)

\* The `while input.expect_comma().is_ok()` loop of BackgroundSizes::from_css.
RECURSIVE BackgroundSizesLoop(_, _)
BackgroundSizesLoop(values, input) ==
  IF ~expect_comma(input).ok
  THEN Parsed(values, IF input = <<>> THEN <<>> ELSE Tail(input))
  ELSE LET next == BackgroundSize_from_css(expect_comma(input).rest)
       IN  IF ~next.ok THEN ParseError
           ELSE BackgroundSizesLoop(Append(values, next.value), next.rest)

\* BackgroundSizes::from_css
BackgroundSizes_from_css(input) ==
  LET first == BackgroundSize_from_css(input)
  IN  IF ~first.ok THEN ParseError
      ELSE BackgroundSizesLoop(<<first.value>>, first.rest)

\* Parser::parse_nested_block: the block has to be used up.
parse_nested_block(result) ==
  IF result.ok /\ result.rest # <<>> THEN ParseError ELSE result

\* Transform::from_css for the function scale(...), given its arguments.
Transform_from_css_scale(input) ==
  parse_nested_block(
    LET x == PercentageNumber_from_css(input)
    IN  IF ~x.ok THEN ParseError
        ELSE IF expect_comma(x.rest).ok
        THEN LET y == PercentageNumber_from_css(expect_comma(x.rest).rest)
             IN  IF ~y.ok THEN ParseError
                 ELSE Parsed(<<"Scale", x.value, y.value>>, y.rest)
        ELSE Parsed(<<"Scale", x.value, x.value>>, x.rest))

\* SpacePair::from_single
SpacePair_from_single(v) == <<v, v>>

\* Overflow's serde names.
OverflowNamed(name) ==
  CASE name = "hidden" -> <<"Hidden">>
    [] name = "visible" -> <<"Visible">>
    [] OTHER -> <<>>

\* Deserializing Overflows: a string is one value for both axes, an
\* object gives x and y.
Overflows_deserialize(json) ==
  IF json.kind = "string"
  THEN IF OverflowNamed(json.value) = <<>> THEN ParseError
       ELSE Parsed(SpacePair_from_single(OverflowNamed(json.value)[1]), <<>>)
  ELSE IF OverflowNamed(json.x) = <<>> \/ OverflowNamed(json.y) = <<>>
       THEN ParseError
       ELSE Parsed(<<OverflowNamed(json.x)[1], OverflowNamed(json.y)[1]>>, <<>>)

Tokens ==
  { <<"ident", "cover">>, <<"ident", "contain">>, <<"ident", "auto">>,
    <<"ident", "bogus">>, <<"px", 100>>, <<"number", 2>>, <<"number", -1>>,
    <<"percentage", 50>>, <<"percentage", -25>>, <<"comma">> }

OverflowNames == {"hidden", "visible", "scroll"}

ParseInputs ==
  { [parser |-> p, tokens |-> ts] :
      p \in {"BackgroundSizes", "scale"}, ts \in SeqsUpTo(Tokens, MaxTokens) }
    \cup { [parser |-> "Overflows", json |-> [kind |-> "string", value |-> n]] :
             n \in OverflowNames }
    \cup { [parser |-> "Overflows", json |-> [kind |-> "object", x |-> a, y |-> b]] :
             a \in OverflowNames, b \in OverflowNames }

InitParse ==
  /\ comp = "parse"
  /\ IdleBlur
  /\ IdleBreak
  /\ IdleTree
  /\ IdleRender
  /\ IdleWebp
  /\ f_pc = "start"
  /\ f_input \in ParseInputs
  /\ f_output = <<>>

ParseBackgroundSizes ==
  /\ comp = "parse"
  /\ f_pc = "start"
  /\ f_input.parser = "BackgroundSizes"
  /\ f_output' = BackgroundSizes_from_css(f_input.tokens)
  /\ f_pc' = "done"
  /\ UNCHANGED <<comp, notCall, f_input>>

ParseTransformScale ==
  /\ comp = "parse"
  /\ f_pc = "start"
  /\ f_input.parser = "scale"
  /\ f_output' = Transform_from_css_scale(f_input.tokens)
  /\ f_pc' = "done"
  /\ UNCHANGED <<comp, notCall, f_input>>

DeserializeOverflows ==
  /\ comp = "parse"
  /\ f_pc = "start"
  /\ f_input.parser = "Overflows"
  /\ f_output' = Overflows_deserialize(f_input.json)
  /\ f_pc' = "done"
  /\ UNCHANGED <<comp, notCall, f_input>>

NextParse == ParseBackgroundSizes \/ ParseTransformScale \/ DeserializeOverflows

SpecParse == InitParse /\ [][NextParse]_vars

IsLengthToken(tok) ==
  tok = <<"ident", "auto">> \/ tok[1] \in {"px", "number", "percentage"}

\* The length a token stands for.
LengthOf(tok) ==
  IF tok = <<"ident", "auto">> THEN <<"Auto">>
  ELSE IF tok[1] = "percentage" THEN <<"Percentage", tok[2]>>
  ELSE <<"Px", tok[2]>>

\* The scale factor a token stands for, in hundredths.
FactorOf(tok) ==
  LET v == IF tok[1] = "number" THEN 100 * tok[2] ELSE tok[2]
  IN  IF v < 0 THEN 0 ELSE v

\* The comma-separated layers of a token sequence.
RECURSIVE Layers(_, _)
Layers(ts, current) ==
  IF ts = <<>> THEN <<current>>
  ELSE IF ts[1] = <<"comma">> THEN <<current>> \o Layers(Tail(ts), <<>>)
  ELSE Layers(Tail(ts), Append(current, ts[1]))

\* C15: a single value is used for both axes and of two values the first
\* is the x (width) value and the second the y (height) value: in every
\* comma-separated layer of background-size, in scale(...), and in an
\* Overflows given as one string or as an {x, y} object.
AxisShorthandDuplicates ==
  (comp = "parse" /\ f_pc = "done") =>
    /\ ( /\ f_input.parser = "BackgroundSizes"
         /\ \A i \in DOMAIN f_input.tokens :
              IsLengthToken(f_input.tokens[i]) \/ f_input.tokens[i] = <<"comma">>
         /\ \A l \in DOMAIN Layers(f_input.tokens, <<>>) :
              Len(Layers(f_input.tokens, <<>>)[l]) \in {1, 2} )
       => /\ f_output.ok
          /\ Len(f_output.value) = Len(Layers(f_input.tokens, <<>>))
          /\ \A l \in DOMAIN f_output.value :
               LET layer == Layers(f_input.tokens, <<>>)[l]
               IN  f_output.value[l] =
                     <<"Explicit", LengthOf(layer[1]), LengthOf(layer[Len(layer)])>>
    /\ ( /\ f_input.parser = "scale"
         /\ Len(f_input.tokens) = 1
         /\ f_input.tokens[1][1] \in {"number", "percentage"} )
       => /\ f_output.ok
          /\ f_output.value = <<"Scale", FactorOf(f_input.tokens[1]),
                                FactorOf(f_input.tokens[1])>>
    /\ ( /\ f_input.parser = "scale"
         /\ Len(f_input.tokens) = 3
         /\ f_input.tokens[1][1] \in {"number", "percentage"}
         /\ f_input.tokens[2] = <<"comma">>
         /\ f_input.tokens[3][1] \in {"number", "percentage"} )
       => /\ f_output.ok
          /\ f_output.value = <<"Scale", FactorOf(f_input.tokens[1]),
                                FactorOf(f_input.tokens[3])>>
    /\ (f_input.parser = "Overflows" /\ f_input.json = [kind |-> "string", value |-> "hidden"])
       => f_output.ok /\ f_output.value = <<"Hidden", "Hidden">>
    /\ (f_input.parser = "Overflows" /\ f_input.json = [kind |-> "object", x |-> "visible", y |-> "hidden"])
       => f_output.ok /\ f_output.value = <<"Visible", "Hidden">>

TwoLengthsParsed ==
  /\ comp = "parse"
  /\ f_pc = "done"
  /\ f_input.parser = "BackgroundSizes"
  /\ f_input.tokens = << <<"px", 100>>, <<"ident", "auto">> >>
  /\ f_output.ok
  /\ f_output.value = << <<"Explicit", <<"Px", 100>>, <<"Auto">> >> >>

(***************************************************************************)
(* PercentageNumber's two parsers.  The Tailwind parser is given the       *)
(* token as str::parse::<f32> reads it: <<>> when it is no number, else    *)
(* <<v>> with v an f32, [cls |-> "finite", h |-> hundredths] or a          *)
(* non-finite value [cls |-> "inf" | "-inf" | "nan", h |-> 0].             *)
(***************************************************************************)
Finite(h) == [cls |-> "finite", h |-> h]

\* f32 division by 100.0
Div100(v) == IF v.cls = "finite" THEN Finite(v.h \div 100) ELSE v

\* PercentageNumber::parse_tw
PercentageNumber_parse_tw(parsed) ==
  IF parsed = <<>> THEN <<>> ELSE <<Div100(parsed[1])>>

PercentageTokens ==
  { <<"number", n>> : n \in -2..3 }
    \cup { <<"percentage", p>> : p \in -MaxPercent..MaxPercent }
    \cup { <<"ident", "auto">>, <<"px", 100>> }

TailwindTokens ==
  { <<Finite(100 * n)>> : n \in -MaxPercent..MaxPercent }
    \cup { <<[cls |-> c, h |-> 0]>> : c \in {"inf", "-inf", "nan"} }
    \cup { <<>> }

InitPercentage ==
  /\ comp = "percentage"
  /\ IdleBlur
  /\ IdleBreak
  /\ IdleTree
  /\ IdleRender
  /\ IdleWebp
  /\ f_pc = "start"
  /\ f_input \in
       { [parser |-> "from_css", tokens |-> <<t>>] : t \in PercentageTokens }
         \cup { [parser |-> "parse_tw", parsed |-> t] : t \in TailwindTokens }
  /\ f_output = <<>>

PercentageFromCss ==
  /\ comp = "percentage"
  /\ f_pc = "start"
  /\ f_input.parser = "from_css"
  /\ f_output' = PercentageNumber_from_css(f_input.tokens)
  /\ f_pc' = "done"
  /\ UNCHANGED <<comp, notCall, f_input>>

PercentageParseTw ==
  /\ comp = "percentage"
  /\ f_pc = "start"
  /\ f_input.parser = "parse_tw"
  /\ f_output' = PercentageNumber_parse_tw(f_input.parsed)
  /\ f_pc' = "done"
  /\ UNCHANGED <<comp, notCall, f_input>>

NextPercentage == PercentageFromCss \/ PercentageParseTw

SpecPercentage == InitPercentage /\ [][NextPercentage]_vars

RECURSIVE SolverNodesBelow(_)
SolverNodesBelow(n) ==
  UNION { {n.children[i]} \cup SolverNodesBelow(n.children[i]) :
            i \in 1..Len(n.children) }

\* The input nodes with inline content in an item's subtree, in declared
\* order.
RECURSIVE InlineContentOf(_)
InlineContentOf(item) ==
  (IF item.node # <<>> /\ ~NodeAt(t_input, item.node[1]).has_children
   THEN <<item.node[1]>> ELSE <<>>)
    \o Flatten([i \in 1..Len(item.children) |-> InlineContentOf(item.children[i])])

\* C17: no item with an inline display becomes a solver node of its own;
\* the inline children of a non-inline item (or anonymous block) share
\* one inline tree on that item's solver node, holding their content in
\* declared order.
InlineAbsorbedByAncestor ==
  (comp = "tree" /\ t_pc = "inserted") =>
    /\ \A n \in SolverNodesBelow(t_taffy) : n.context.display # "Inline"
    /\ \A item \in ItemsOf(t_tree) :
         ( /\ ~is_inline(item)
           /\ item.children # <<>>
           /\ AllInline(item.children) )
         => \E n \in {t_taffy} \cup SolverNodesBelow(t_taffy) :
              /\ n.context = item.context
              /\ n.content =
                   <<"Inline", Flatten([i \in 1..Len(item.children) |->
                                          InlineContentOf(item.children[i])])>>

\* The paint event at position j of the log is of the content of the node
\* at path p: its inline content, or the box or inline content of a node
\* below it.
ContentEventOf(j, p) ==
  \/ r_log[j] = <<"inline", p>>
  \/ /\ r_log[j][1] \in {"draw", "inline"}
     /\ IsPrefix(p, r_log[j][2])
     /\ r_log[j][2] # p

\* C18: for every painted node whose overflow is not visible on some
\* axis, with a clip-path or without, a clip constraint is pushed before
\* any of its inline content or children is painted and popped only
\* after all of them are, and it has been popped when render returns.
OverflowClipBracketsContent ==
  comp = "render" =>
    \A d \in DOMAIN r_log :
      ( /\ r_log[d][1] = "draw"
        /\ TreeNodeAt(<<r_tree>>, r_log[d][2]).style.overflow # <<"Visible", "Visible">> )
      => LET p == r_log[d][2]
         IN  /\ \A j \in DOMAIN r_log :
                  ContentEventOf(j, p) =>
                    /\ \E i \in 1..(j - 1) : r_log[i] = <<"push", p>>
                    /\ \A i \in 1..(j - 1) : r_log[i] # <<"pop", p>>
             /\ ( /\ r_pc = "done"
                  /\ \E i \in DOMAIN r_log : r_log[i] = <<"push", p>> )
                => \E i \in DOMAIN r_log : r_log[i] = <<"pop", p>>

(***************************************************************************)
(* create_transform on its own: the incoming transform and the node's      *)
(* declared transform properties.                                          *)
(***************************************************************************)
TransformInputs ==
  { [transform |-> t,
     style |-> [origin |-> o, transform |-> l, rotate |-> r, scale |-> s,
                translate |-> tr]] :
      t \in { IDENTITY, translation(2, 1), Affine(0, 1, -1, 0, 1, 0) },
      o \in { <<0, 0>>, <<1, 2>> },
      l \in { <<>>, << <<"Skew", 1, 0>> >>,
              << <<"Translate", 1, 0>>, <<"Scale", 2, 1>> >>,
              << <<"Rotate", 1>>, <<"Matrix", Affine(1, 1, 0, 2, 0, 1)>> >> },
      r \in { <<>>, <<1>> },
      s \in { <<>>, <<2, 1>>, <<1, 3>> },
      tr \in { <<>>, <<1, 0>>, <<0, 2>> } }

InitTransform ==
  /\ comp = "transform"
  /\ IdleBlur
  /\ IdleBreak
  /\ IdleTree
  /\ IdleRender
  /\ IdleWebp
  /\ f_pc = "start"
  /\ f_input \in TransformInputs
  /\ f_output = <<>>

CreateTransform ==
  /\ comp = "transform"
  /\ f_pc = "start"
  /\ f_output' = <<create_transform(f_input.transform, f_input.style)>>
  /\ f_pc' = "done"
  /\ UNCHANGED <<comp, notCall, f_input>>

NextTransform == CreateTransform

SpecTransform == InitTransform /\ [][NextTransform]_vars

\* The product m1 * m2 * ... of a sequence of transforms, left to right.
RECURSIVE ProductOf(_, _)
ProductOf(acc, ms) ==
  IF ms = <<>> THEN acc ELSE ProductOf(AffineMul(acc, ms[1]), Tail(ms))

\* The transforms a style declares, each the identity when absent.
DeclaredTranslate ==
  IF f_input.style.translate = <<>> THEN IDENTITY
  ELSE translation(f_input.style.translate[1], f_input.style.translate[2])
DeclaredRotate ==
  IF f_input.style.rotate = <<>> THEN IDENTITY
  ELSE rotation(f_input.style.rotate[1])
DeclaredScale ==
  IF f_input.style.scale = <<>> THEN IDENTITY
  ELSE scale(f_input.style.scale[1], f_input.style.scale[2])
DeclaredList ==
  IF f_input.style.transform = <<>> THEN IDENTITY
  ELSE to_affine(f_input.style.transform, IDENTITY)
DeclaredOrigin ==
  <<f_input.style.origin[1] + f_input.transform.x,
    f_input.style.origin[2] + f_input.transform.y>>

\* C19 as stated: onto the incoming transform are multiplied, in this
\* order, translate(-origin), translate, rotate, scale, the transform
\* list, translate(+origin).
TransformOrderTranslateFirst ==
  (comp = "transform" /\ f_pc = "done") =>
    f_output[1] =
      ProductOf(f_input.transform,
                << translation(-DeclaredOrigin[1], -DeclaredOrigin[2]),
                   DeclaredTranslate, DeclaredRotate, DeclaredScale, DeclaredList,
                   translation(DeclaredOrigin[1], DeclaredOrigin[2]) >>)

\* C19 as amended: onto the incoming transform are multiplied, in this
\* order, translate(-origin), the transform list, rotate, scale,
\* translate, translate(+origin), origin being the transform-origin plus
\* the incoming translation.
TransformOrderListFirst ==
  (comp = "transform" /\ f_pc = "done") =>
    f_output[1] =
      ProductOf(f_input.transform,
                << translation(-DeclaredOrigin[1], -DeclaredOrigin[2]),
                   DeclaredList, DeclaredRotate, DeclaredScale, DeclaredTranslate,
                   translation(DeclaredOrigin[1], DeclaredOrigin[2]) >>)

AllTransformsComposed ==
  /\ comp = "transform"
  /\ f_pc = "done"
  /\ f_input.transform = translation(2, 1)
  /\ f_input.style.origin = <<1, 2>>
  /\ f_input.style.transform = << <<"Skew", 1, 0>> >>
  /\ f_input.style.rotate = <<1>>
  /\ f_input.style.scale = <<2, 1>>
  /\ f_input.style.translate = <<1, 0>>
  /\ f_output[1] #
       ProductOf(f_input.transform,
                 << translation(-3, -3), translation(1, 0), rotation(1),
                    scale(2, 1), skew(1, 0), translation(3, 3) >>)

(***************************************************************************)
(* create_inline_constraint: the width and the height limit a text is      *)
(* laid out under.  A width is <<"px", w>> or <<"f32::MAX">>; an Option    *)
(* is <<>> or <<v>>; an AvailableSpace is <<"MinContent">>,                *)
(* <<"MaxContent">> or <<"Definite", v>>.                                  *)
(***************************************************************************)
\* Option::or
OptionOr(a, b) == IF a # <<>> THEN a ELSE b

\* The match on an AvailableSpace.
AvailableToOption(space) ==
  CASE space[1] = "MinContent" -> <<0>>
    [] space[1] = "MaxContent" -> <<>>
    [] OTHER -> <<space[2]>>

\* The known dimensions ignored: the available space alone decides.
create_inline_constraint_AvailableOnly(line_clamp, available_space, known_dimensions) ==
  LET width_constraint == AvailableToOption(available_space.width)
      height_constraint == AvailableToOption(available_space.height)
      height_constraint_with_max_lines ==
        CASE line_clamp # <<>> /\ height_constraint # <<>> ->
               << [kind |-> "Both", max_height |-> height_constraint[1],
                   max_lines |-> line_clamp[1]] >>
          [] line_clamp # <<>> /\ height_constraint = <<>> ->
               << [kind |-> "Lines", lines |-> line_clamp[1]] >>
          [] line_clamp = <<>> /\ height_constraint # <<>> ->
               << [kind |-> "Absolute", max_height |-> height_constraint[1]] >>
          [] OTHER -> <<>>
  IN  [width |-> IF width_constraint # <<>> THEN <<"px", width_constraint[1]>>
                 ELSE <<"f32::MAX">>,
       max_height |-> height_constraint_with_max_lines]

create_inline_constraint(line_clamp, available_space, known_dimensions) ==
  LET width_constraint ==
        OptionOr(known_dimensions.width, AvailableToOption(available_space.width))
      height_constraint ==
        OptionOr(known_dimensions.height, AvailableToOption(available_space.height))
      height_constraint_with_max_lines ==
        CASE line_clamp # <<>> /\ height_constraint # <<>> ->
               << [kind |-> "Both", max_height |-> height_constraint[1],
                   max_lines |-> line_clamp[1]] >>
          [] line_clamp # <<>> /\ height_constraint = <<>> ->
               << [kind |-> "Lines", lines |-> line_clamp[1]] >>
          [] line_clamp = <<>> /\ height_constraint # <<>> ->
               << [kind |-> "Absolute", max_height |-> height_constraint[1]] >>
          [] OTHER -> <<>>
  IN  [width |-> IF width_constraint # <<>> THEN <<"px", width_constraint[1]>>
                 ELSE <<"f32::MAX">>,
       max_height |-> height_constraint_with_max_lines]

AvailableSpaces ==
  { <<"MinContent">>, <<"MaxContent">> }
    \cup { <<"Definite", v>> : v \in 0..MaxHeightCap }

KnownDimensions == { <<>> } \cup { <<v>> : v \in 1..MaxHeightCap }

LineClamps == { <<>> } \cup { <<n>> : n \in 0..MaxClamp }

InitConstraint ==
  /\ comp = "constraint"
  /\ IdleBlur
  /\ IdleBreak
  /\ IdleTree
  /\ IdleRender
  /\ IdleWebp
  /\ f_pc = "start"
  /\ f_input \in
       { [line_clamp |-> c,
          available_space |-> [width |-> aw, height |-> ah],
          known_dimensions |-> [width |-> kw, height |-> kh]] :
           c \in LineClamps, aw \in AvailableSpaces, ah \in AvailableSpaces,
           kw \in KnownDimensions, kh \in KnownDimensions }
  /\ f_output = <<>>

CreateInlineConstraint ==
  /\ comp = "constraint"
  /\ f_pc = "start"
  /\ f_output' = << create_inline_constraint(f_input.line_clamp,
                                             f_input.available_space,
                                             f_input.known_dimensions) >>
  /\ f_pc' = "done"
  /\ UNCHANGED <<comp, notCall, f_input>>

NextConstraint == CreateInlineConstraint

SpecConstraint == InitConstraint /\ [][NextConstraint]_vars

\* Whether an axis has a limit, from its inputs: a known dimension, or an
\* available space other than MaxContent.
AxisLimited(known, space) == known # <<>> \/ space[1] # "MaxContent"

\* The limit of a limited axis.
AxisLimit(known, space) ==
  IF known # <<>> THEN known[1]
  ELSE IF space[1] = "MinContent" THEN 0 ELSE space[2]

\* C20: per axis the result is the known dimension if present, else 0 for
\* MinContent, no limit for MaxContent (width f32::MAX, height absent) and
\* w for Definite(w); the max-height is Both(h, n) with a height limit h
\* and a line-clamp n, Lines(n) with only a line-clamp, Absolute(h) with
\* only a height limit, and None with neither.
InlineConstraintPerAxis ==
  (comp = "constraint" /\ f_pc = "done") =>
    LET kd == f_input.known_dimensions
        av == f_input.available_space
        line_clamp == f_input.line_clamp
        out == f_output[1]
        limited == AxisLimited(kd.height, av.height)
        h == AxisLimit(kd.height, av.height)
    IN  /\ out.width =
             IF AxisLimited(kd.width, av.width)
             THEN <<"px", AxisLimit(kd.width, av.width)>>
             ELSE <<"f32::MAX">>
        /\ (limited /\ line_clamp # <<>>) =>
             out.max_height =
               << [kind |-> "Both", max_height |-> h, max_lines |-> line_clamp[1]] >>
        /\ (~limited /\ line_clamp # <<>>) =>
             out.max_height = << [kind |-> "Lines", lines |-> line_clamp[1]] >>
        /\ (limited /\ line_clamp = <<>>) =>
             out.max_height = << [kind |-> "Absolute", max_height |-> h] >>
        /\ (~limited /\ line_clamp = <<>>) => out.max_height = <<>>

KnownHeightClamped ==
  /\ comp = "constraint"
  /\ f_pc = "done"
  /\ f_input.known_dimensions = [width |-> <<>>, height |-> <<3>>]
  /\ f_input.available_space = [width |-> <<"MaxContent">>, height |-> <<"Definite", 5>>]
  /\ f_input.line_clamp = <<2>>
  /\ f_output[1] =
       [width |-> <<"f32::MAX">>,
        max_height |-> << [kind |-> "Both", max_height |-> 3, max_lines |-> 2] >>]

\* The offsets (from 0) at which the chunks of a container start, walking
\* from offset i by each chunk's size field and pad byte.
RECURSIVE ChunkOffsets(_, _)
ChunkOffsets(bytes, i) ==
  IF i + 8 > Len(bytes) THEN <<>>
  ELSE LET size == from_le_bytes(Slice(bytes, i + 4, i + 8))
       IN  <<i>> \o ChunkOffsets(bytes, i + 8 + size + (size % 2))

\* Where that walk stops.
RECURSIVE ChunkWalkEnd(_, _)
ChunkWalkEnd(bytes, i) ==
  IF i + 8 > Len(bytes) THEN i
  ELSE LET size == from_le_bytes(Slice(bytes, i + 4, i + 8))
       IN  ChunkWalkEnd(bytes, i + 8 + size + (size % 2))

ChunkTagAt(bytes, o) == Slice(bytes, o, o + 4)
ChunkSizeAt(bytes, o) == from_le_bytes(Slice(bytes, o + 4, o + 8))

AnmfOffsets ==
  SelectSeq(ChunkOffsets(w_destination, 12),
            LAMBDA o : ChunkTagAt(w_destination, o) = ANMF)

\* C21: the bytes written are a well-framed RIFF: the RIFF size field is 4
\* plus the bytes of all chunks, there is one ANMF chunk per input frame,
\* each ANMF size field is 24 plus its VP8L payload length rounded up to
\* even, a zero pad byte follows every odd-length payload, and every chunk
\* starts at an even offset.
RiffWellFramed ==
  (comp = "webp" /\ w_result = "Ok") =>
    LET d == w_destination
        offs == ChunkOffsets(d, 12)
    IN  /\ ChunkTagAt(d, 0) = RIFF
        /\ Slice(d, 8, 12) = WEBP
        /\ ChunkSizeAt(d, 0) = 4 + (Len(d) - 12)
        /\ ChunkWalkEnd(d, 12) = Len(d)
        /\ Len(AnmfOffsets) = Len(w_frames)
        /\ \A k \in DOMAIN AnmfOffsets :
             LET o == AnmfOffsets[k]
                 n == ChunkSizeAt(d, o + 24)
             IN  /\ ChunkTagAt(d, o + 24) = VP8L
                 /\ ChunkSizeAt(d, o) = 24 + n + (n % 2)
                 /\ (n % 2 = 1) => d[o + 32 + n + 1] = 0
                 /\ (o + 24) % 2 = 0
        /\ \A k \in DOMAIN offs : offs[k] % 2 = 0

OddPayloadsFramed ==
  /\ comp = "webp"
  /\ w_result = "Ok"
  /\ Len(w_frames) = 2
  /\ Len(AnmfOffsets) = 2
  /\ ChunkSizeAt(w_destination, AnmfOffsets[1] + 24) = 3
  /\ ChunkSizeAt(w_destination, AnmfOffsets[2] + 24) = 2
  /\ w_destination[AnmfOffsets[1] + 36] = 0

(***************************************************************************)
(* Frames through the worker pool: RenderAnimationTask::compute renders    *)
(* the nodes with into_par_iter().map(..).collect(), then                  *)
(* encode_animated_webp encodes the frames with par_iter().map(..)         *)
(* .collect() and lays them out in its ANMF loop.  Workers take and        *)
(* finish items in any order; each writes its result into the slot of      *)
(* its item.  f_input is the list of <<node, duration_ms>>; f_output is    *)
(* [stage, status, slots, finished, orders, frames, payloads, written].    *)
(***************************************************************************)
\* render(viewport, context, node): the image of a node.
RenderOf(node) ==
  [width |-> node, height |-> 1, raw |-> <<node, 2 * node, 0, 255>>]

\* AnimationFrame::new
AnimationFrame_new(image, duration_ms) ==
  [image |-> image, duration_ms |-> duration_ms]

\* WebPEncoder::encode of an image: a RIFF buffer holding its payload.
EncodeOf(image) == StillFile(Chunk(VP8L, <<47>> \o image.raw))

\* The closure each pool maps over an item.
MapItem(stage, item) ==
  IF stage = "render" THEN AnimationFrame_new(RenderOf(item[1]), item[2])
  ELSE [frame |-> item, buf |-> EncodeOf(item.image)]

\* The results taken in the order the workers finished.
par_collect_CompletionOrder(slots, finished) ==
  [k \in 1..Len(finished) |-> slots[finished[k]][1]]

\* collect() of an indexed parallel iterator: the results by item index.
par_collect(slots, finished) == [k \in 1..Len(slots) |-> slots[k][1]]

ParItems ==
  { <<node, duration_ms>> : node \in 1..2, duration_ms \in {10, 20} }

PoolAt(stage, n, orders, frames, payloads) ==
  [stage |-> stage,
   status |-> [i \in 1..n |-> "pending"],
   slots |-> [i \in 1..n |-> <<>>],
   finished |-> <<>>,
   orders |-> orders,
   frames |-> frames,
   payloads |-> payloads,
   written |-> <<>>]

InitPar ==
  /\ comp = "par"
  /\ IdleBlur
  /\ IdleBreak
  /\ IdleTree
  /\ IdleRender
  /\ IdleWebp
  /\ f_pc = "start"
  /\ f_input \in SeqsUpTo(ParItems, MaxParItems) \ { <<>> }
  /\ f_output = PoolAt("render", Len(f_input), <<>>, <<>>, <<>>)

\* The items the pool of the current stage maps over.
PoolItems == IF f_output.stage = "render" THEN f_input ELSE f_output.frames

\* A worker takes an item nobody has taken.
WorkerStart ==
  /\ comp = "par"
  /\ f_output.stage \in {"render", "encode"}
  /\ \E i \in DOMAIN f_output.status :
       /\ f_output.status[i] = "pending"
       /\ f_output' = [f_output EXCEPT !.status[i] = "running"]
  /\ f_pc' = "running"
  /\ UNCHANGED <<comp, notCall, f_input>>

\* A worker finishes its item and leaves the result in the item's slot.
WorkerFinish ==
  /\ comp = "par"
  /\ f_output.stage \in {"render", "encode"}
  /\ \E i \in DOMAIN f_output.status :
       /\ f_output.status[i] = "running"
       /\ f_output' =
            [f_output EXCEPT !.status[i] = "done",
                             !.slots[i] = <<MapItem(f_output.stage, PoolItems[i])>>,
                             !.finished = Append(@, i)]
  /\ UNCHANGED <<comp, notCall, f_input, f_pc>>

\* collect(): every item is done; compute goes on to encode_animated_webp,
\* encode_animated_webp to its ANMF loop.
PoolCollect ==
  /\ comp = "par"
  /\ f_output.stage \in {"render", "encode"}
  /\ \A i \in DOMAIN f_output.status : f_output.status[i] = "done"
  /\ LET collected == par_collect(f_output.slots, f_output.finished)
         orders == Append(f_output.orders, f_output.finished)
     IN  f_output' =
           IF f_output.stage = "render"
           THEN PoolAt("encode", Len(f_input), orders, collected, <<>>)
           ELSE [PoolAt("mux", Len(f_input), orders, f_output.frames, collected)
                   EXCEPT !.status = f_output.status, !.slots = f_output.slots]
  /\ UNCHANGED <<comp, notCall, f_input, f_pc>>

\* The ANMF loop over frames_payloads, in the order of the vector.
MuxFrames ==
  /\ comp = "par"
  /\ f_output.stage = "mux"
  /\ f_output' =
       [f_output EXCEPT
          !.stage = "done",
          !.written =
             [k \in 1..Len(f_output.payloads) |->
                [duration |-> clamp(f_output.payloads[k].frame.duration_ms, 0, U24_MAX),
                 payload |-> extract_vp8_payload(f_output.payloads[k].buf).payload]]]
  /\ f_pc' = "done"
  /\ UNCHANGED <<comp, notCall, f_input>>

NextPar == WorkerStart \/ WorkerFinish \/ PoolCollect \/ MuxFrames

SpecPar == InitPar /\ [][NextPar]_vars

str_len(text) == SumSeq(text)

\* node.measure: the intrinsic size, the width held to a definite
\* available width.
NodeMeasure(node, available_space) ==
  [width |-> IF available_space.width[1] = "Definite"
             THEN Min(node[2], available_space.width[2]) ELSE node[2],
   height |-> node[3]]

\* The id taken after the size was pushed to `boxes`.
render_layout_item_IdAfterPush(acc, item, size) ==
  IF item[1] = "Text"
  THEN [acc EXCEPT !.index_pos = @ + str_len(item[2])]
  ELSE LET measured ==
             NodeMeasure(item, [width |-> <<"Definite", size.width>>,
                                height |-> <<"Definite", size.height>>])
       IN  [acc EXCEPT
              !.inline_boxes =
                 Append(@, [index |-> acc.index_pos, id |-> Len(acc.boxes) + 1,
                            width |-> measured.width, height |-> measured.height]),
              !.boxes = Append(@, measured)]

\* One turn of the item loop of create_render_layout.
render_layout_item(acc, item, size) ==
  IF item[1] = "Text"
  THEN [acc EXCEPT !.index_pos = @ + str_len(item[2])]
  ELSE LET measured ==
             NodeMeasure(item, [width |-> <<"Definite", size.width>>,
                                height |-> <<"Definite", size.height>>])
       IN  [acc EXCEPT
              !.inline_boxes =
                 Append(@, [index |-> acc.index_pos, id |-> Len(acc.boxes),
                            width |-> measured.width, height |-> measured.height]),
              !.boxes = Append(@, measured)]

\* One turn of the item loop of measure.
measure_item(acc, item, available_space) ==
  IF item[1] = "Text"
  THEN [acc EXCEPT !.index_pos = @ + str_len(item[2])]
  ELSE LET measured == NodeMeasure(item, available_space)
       IN  [acc EXCEPT
              !.boxes = Append(@, measured),
              !.inline_boxes =
                 Append(@, [index |-> acc.index_pos, id |-> acc.idx,
                            width |-> measured.width, height |-> measured.height]),
              !.idx = @ + 1]

RECURSIVE render_layout_items(_, _, _)
render_layout_items(acc, items, size) ==
  IF items = <<>> THEN acc
  ELSE render_layout_items(render_layout_item(acc, items[1], size), Tail(items), size)

RECURSIVE measure_items(_, _, _)
measure_items(acc, items, available_space) ==
  IF items = <<>> THEN acc
  ELSE measure_items(measure_item(acc, items[1], available_space), Tail(items),
                     available_space)

InlineItems ==
  { <<"Text", t>> : t \in { <<>>, <<1>>, <<1, 3>>, <<2, 1>> } }
    \cup { <<"Node", 1, 1>>, <<"Node", 4, 2>> }

InitInline ==
  /\ comp = "inline"
  /\ IdleBlur
  /\ IdleBreak
  /\ IdleTree
  /\ IdleRender
  /\ IdleWebp
  /\ f_pc = "start"
  /\ \E items \in SeqsUpTo(InlineItems, MaxItems),
        aw \in { <<"MinContent">>, <<"MaxContent">>, <<"Definite", 3>> } :
       f_input = [items |-> items,
                  available_space |-> [width |-> aw, height |-> <<"MaxContent">>],
                  size |-> [width |-> 3, height |-> 2]]
  /\ f_output = [measure |-> <<>>, render |-> <<>>]

\* InlineTree::measure, called by the layout pass.
InlineMeasure ==
  /\ comp = "inline"
  /\ f_pc = "start"
  /\ f_output' =
       [f_output EXCEPT !.measure =
          << measure_items([idx |-> 0, index_pos |-> 0, boxes |-> <<>>,
                            inline_boxes |-> <<>>],
                           f_input.items, f_input.available_space) >>]
  /\ f_pc' = "measured"
  /\ UNCHANGED <<comp, notCall, f_input>>

\* InlineTree::create_render_layout, called by the paint pass.
InlineCreateRenderLayout ==
  /\ comp = "inline"
  /\ f_pc = "measured"
  /\ f_output' =
       [f_output EXCEPT !.render =
          << render_layout_items([index_pos |-> 0, boxes |-> <<>>,
                                  inline_boxes |-> <<>>],
                                 f_input.items, f_input.size) >>]
  /\ f_pc' = "done"
  /\ UNCHANGED <<comp, notCall, f_input>>

NextInline == InlineMeasure \/ InlineCreateRenderLayout

SpecInline == InitInline /\ [][NextInline]_vars

\* The positions of the atomic items, in item order.
AtomicPositions ==
  SelectSeq([i \in 1..Len(f_input.items) |-> i],
            LAMBDA i : f_input.items[i][1] = "Node")

\* The bytes of all text items before position p.
RECURSIVE TextBytesBefore(_)
TextBytesBefore(p) ==
  IF p <= 1 THEN 0
  ELSE TextBytesBefore(p - 1)
         + (IF f_input.items[p - 1][1] = "Text"
            THEN SumSeq(f_input.items[p - 1][2]) ELSE 0)

\* What C23 says of one pass: the k-th atomic item (from 0) has id k,
\* boxes[k] is its measured size and its placeholder index is the byte
\* length of the text items before it.
IdsFollowAtomicOrder(pass) ==
  /\ Len(pass.inline_boxes) = Len(AtomicPositions)
  /\ Len(pass.boxes) = Len(AtomicPositions)
  /\ \A k \in DOMAIN AtomicPositions :
       /\ pass.inline_boxes[k].id = k - 1
       /\ pass.inline_boxes[k].index = TextBytesBefore(AtomicPositions[k])
       /\ pass.boxes[k].width = pass.inline_boxes[k].width
       /\ pass.boxes[k].height = pass.inline_boxes[k].height
       /\ pass.boxes[k].height = f_input.items[AtomicPositions[k]][3]

\* C23: measure and create_render_layout give the same inline-box ids to
\* the same items: the k-th atomic item in item order has id k, boxes[k]
\* holds its measured size, and its placeholder index is the total byte
\* length of the text items before it.
InlineBoxIdsAgree ==
  (comp = "inline") =>
    /\ (f_output.measure # <<>>) => IdsFollowAtomicOrder(f_output.measure[1])
    /\ (f_output.render # <<>>) =>
         /\ IdsFollowAtomicOrder(f_output.render[1])
         /\ \A k \in DOMAIN AtomicPositions :
              /\ f_output.render[1].inline_boxes[k].id =
                   f_output.measure[1].inline_boxes[k].id
              /\ f_output.render[1].inline_boxes[k].index =
                   f_output.measure[1].inline_boxes[k].index

TwoBoxesAfterMultibyteText ==
  /\ comp = "inline"
  /\ f_pc = "done"
  /\ f_input.items = << <<"Text", <<1, 3>> >>, <<"Node", 4, 2>>, <<"Node", 1, 1>> >>
  /\ f_output.render[1].inline_boxes[2].id = 1
  /\ f_output.render[1].inline_boxes[2].index = 4
  /\ f_output.measure[1].inline_boxes[2].id = 1

(***************************************************************************)
(* extract_vp8_payload on any buffer, one turn of its loop at a time.      *)
(* usize arithmetic depends on the build: usize is 32 or 64 bits wide,     *)
(* and an overflowing `+` panics with overflow checks and wraps without.   *)
(* A usize is held as [hi, lo], meaning hi * 2^24 + lo.  f_output is       *)
(* [i, turns, result], turns being the number of turns of the loop so far  *)
(* modulo 2.                                                               *)
(***************************************************************************)
Pow24 == 16777216

\* start + len in usize, len being the u32 of four little-endian bytes.
usize_add(start, len_bytes, usize_bits) ==
  LET lo_sum == start + len_bytes[1] + 256 * len_bytes[2] + 65536 * len_bytes[3]
      hi_sum == len_bytes[4] + (lo_sum \div Pow24)
  IN  [overflow |-> usize_bits = 32 /\ hi_sum >= 256,
       hi |-> IF usize_bits = 32 THEN hi_sum % 256 ELSE hi_sum,
       lo |-> lo_sum % Pow24]

Builds ==
  { [usize_bits |-> b, overflow_checks |-> c] : b \in {32, 64}, c \in BOOLEAN }

\* What may follow the 12-byte header: whole chunks, size fields that
\* reach past any buffer, and a fragment.
BufferPieces ==
  { Chunk(ICCP, <<9>>), Chunk(ICCP, <<>>), Chunk(VP8L, <<47, 1, 2>>),
    Chunk(VP8_, <<3, 4>>),
    ICCP \o <<200, 0, 0, 0>>,
    ICCP \o <<248, 255, 255, 255>>,
    VP8L \o <<250, 255, 255, 255>>,
    <<86, 80, 56>> }

Prefixes(bytes) == { SubSeq(bytes, 1, n) : n \in 0..Len(bytes) }

Buffers ==
  UNION { Prefixes(Zeros(12) \o Flatten(pieces)) :
            pieces \in SeqsUpTo(BufferPieces, MaxPieces) }

InitExtract ==
  /\ comp = "extract"
  /\ IdleBlur
  /\ IdleBreak
  /\ IdleTree
  /\ IdleRender
  /\ IdleWebp
  /\ f_pc = "loop"
  /\ f_input \in { [buf |-> buf, build |-> build] : buf \in Buffers, build \in Builds }
  /\ f_output = [i |-> 12, turns |-> 0, result |-> <<"none">>]

InLoop ==
  /\ comp = "extract"
  /\ f_pc = "loop"
  /\ f_output.i + 8 <= Len(f_input.buf)

LoopEnd ==
  usize_add(f_output.i + 8, Slice(f_input.buf, f_output.i + 4, f_output.i + 8),
            f_input.build.usize_bits)

LoopEndPastBuffer == LoopEnd.hi > 0 \/ LoopEnd.lo > Len(f_input.buf)

LoopTagMatches ==
  \/ Slice(f_input.buf, f_output.i, f_output.i + 4) = VP8L
  \/ Slice(f_input.buf, f_output.i, f_output.i + 4) = VP8_

Finish(result) ==
  /\ f_output' = [f_output EXCEPT !.result = result]
  /\ f_pc' = "done"
  /\ UNCHANGED <<comp, notCall, f_input>>

\* The loop condition fails, or `end > buf.len()` breaks: Err.
ExtractFail ==
  /\ comp = "extract"
  /\ f_pc = "loop"
  /\ \/ ~(f_output.i + 8 <= Len(f_input.buf))
     \/ /\ f_output.i + 8 <= Len(f_input.buf)
        /\ ~(LoopEnd.overflow /\ f_input.build.overflow_checks)
        /\ LoopEndPastBuffer
  /\ Finish(<<"Err">>)

\* `start + len` overflows usize in a build with overflow checks.
ExtractOverflowPanic ==
  /\ InLoop
  /\ LoopEnd.overflow
  /\ f_input.build.overflow_checks
  /\ Finish(<<"panic", "attempt to add with overflow">>)

\* The tag matches: Ok(&buf[start..end]), which panics when start > end.
ExtractReturn ==
  /\ InLoop
  /\ ~(LoopEnd.overflow /\ f_input.build.overflow_checks)
  /\ ~LoopEndPastBuffer
  /\ LoopTagMatches
  /\ IF f_output.i + 8 > LoopEnd.lo
     THEN Finish(<<"panic", "slice index starts after its end">>)
     ELSE Finish(<<"Ok", Slice(f_input.buf, f_output.i + 8, LoopEnd.lo)>>)

\* Another tag: i = end + (len & 1).
ExtractSkip ==
  /\ InLoop
  /\ ~(LoopEnd.overflow /\ f_input.build.overflow_checks)
  /\ ~LoopEndPastBuffer
  /\ ~LoopTagMatches
  /\ f_output' = [f_output EXCEPT !.i = LoopEnd.lo + (f_input.buf[f_output.i + 5] % 2),
                                  !.turns = (@ + 1) % 2]
  /\ UNCHANGED <<comp, notCall, f_input, f_pc>>

NextExtract == ExtractFail \/ ExtractOverflowPanic \/ ExtractReturn \/ ExtractSkip

\* The function runs on: its loop is never left waiting.
SpecExtract == InitExtract /\ [][NextExtract]_vars /\ WF_vars(NextExtract)

\* The payload of the first VP8L or 'VP8 ' chunk lying wholly inside the
\* buffer, going from offset o past the chunks before it and their pad
\* bytes; Err when there is none.
RECURSIVE FirstVp8Payload(_, _)
FirstVp8Payload(buf, o) ==
  IF o + 8 > Len(buf) THEN <<"Err">>
  ELSE LET size == Slice(buf, o + 4, o + 8)
           small == size[3] = 0 /\ size[4] = 0
           n == size[1] + 256 * size[2]
       IN  IF ~small \/ o + 8 + n > Len(buf) THEN <<"Err">>
           ELSE IF Slice(buf, o, o + 4) \in {VP8L, VP8_}
           THEN <<"Ok", Slice(buf, o + 8, o + 8 + n)>>
           ELSE FirstVp8Payload(buf, o + 8 + n + (n % 2))

\* C24: extract_vp8_payload terminates on every buffer, with the payload
\* of the first VP8L or 'VP8 ' chunk after the 12-byte header, or with an
\* error when no such chunk lies wholly inside the buffer, and never
\* indexes outside the buffer.
ExtractTerminatesWithFirstPayload ==
  <>(f_pc = "done" /\ f_output.result = FirstVp8Payload(f_input.buf, 12))

(***************************************************************************)
(* The division of both blur passes on its own: a kernel radius and one    *)
(* lane of the accumulated sum.                                            *)
(***************************************************************************)
InitDivide ==
  /\ comp = "divide"
  /\ IdleBlur
  /\ IdleBreak
  /\ IdleTree
  /\ IdleRender
  /\ IdleWebp
  /\ f_pc = "start"
  /\ \E radius \in 1..MaxKernelRadius :
       \E s \in 0..(255 * (radius + 1) * (radius + 1)) :
         f_input = [radius |-> radius, sum |-> s]
  /\ f_output = <<>>

\* mul_val = (1 << 32) / divisor; blurred = (sum * mul_val) >> 32
DivideByWeight ==
  /\ comp = "divide"
  /\ f_pc = "start"
  /\ LET divisor == (f_input.radius + 1) * (f_input.radius + 1)
     IN  f_output' = <<MulShr32(f_input.sum, MulVal(divisor))>>
  /\ f_pc' = "done"
  /\ UNCHANGED <<comp, notCall, f_input>>

NextDivide == DivideByWeight

SpecDivide == InitDivide /\ [][NextDivide]_vars

\* C25: for every kernel radius r and every sum s in 0..255*(r+1)^2 the
\* fixed-point division (s * floor(2^32 / (r+1)^2)) >> 32 equals the
\* integer quotient floor(s / (r+1)^2).
FixedPointDivisionIsQuotient ==
  (comp = "divide" /\ f_pc = "done") =>
    f_output[1] = f_input.sum \div ((f_input.radius + 1) * (f_input.radius + 1))

\* C26: from_node loses and reorders no child: for every node, the
\* children of its item, anonymous blocks replaced by the run they hold,
\* are the node's children in their declared order, inline children after
\* the last non-inline child included.
ChildrenKeptInOrder ==
  (comp = "tree" /\ t_pc \in {"done", "inserted"}) =>
    \A item \in ItemsOf(t_tree) :
      item.node # <<>> =>
        FlatNodes(item.children) =
          [i \in 1..Len(NodeAt(t_input, item.node[1]).children) |->
             Append(item.node[1], i)]

(***************************************************************************)
(* One line of a blur pass, turn by turn: the two initialisation loops,    *)
(* then one turn of the sliding loop per position.  f_input is             *)
(* [line, radius], the line as the pass reads it (premultiplied lanes);    *)
(* f_output is [x, st] with st the ring, the three sums and stack_ptr.     *)
(***************************************************************************)
LaneValues == {0, 100, 255}

Lines ==
  UNION { [1..n -> { <<v, 0, v \div 2, 255>> : v \in LaneValues }] :
            n \in 1..MaxLineLen }

InitSlide ==
  /\ comp = "slide"
  /\ IdleBlur
  /\ IdleBreak
  /\ IdleTree
  /\ IdleRender
  /\ IdleWebp
  /\ f_pc = "start"
  /\ f_input \in { [line |-> l, radius |-> r] : l \in Lines, r \in 1..MaxSlideRadius }
  /\ f_output = <<>>

\* The two loops that fill the stack with edge-extended pixels.
SlideInitStack ==
  /\ comp = "slide"
  /\ f_pc = "start"
  /\ f_output' =
       [x |-> 0,
        st |-> InitStack(f_input.line, f_input.radius, 0,
                 [stack |-> [i \in 0..(2 * f_input.radius) |-> VZero],
                  sum |-> VZero, sum_in |-> VZero, sum_out |-> VZero,
                  stack_ptr |-> f_input.radius, out |-> <<>>])]
  /\ f_pc' = "slide"
  /\ UNCHANGED <<comp, notCall, f_input>>

\* One turn of `for x in 0..width`.
SlideTurn ==
  /\ comp = "slide"
  /\ f_pc = "slide"
  /\ f_output.x < Len(f_input.line)
  /\ f_output' =
       [x |-> f_output.x + 1,
        st |-> SlideStep(f_input.line, f_input.radius, f_output.x, f_output.st)]
  /\ UNCHANGED <<comp, notCall, f_input, f_pc>>

SlideEnd ==
  /\ comp = "slide"
  /\ f_pc = "slide"
  /\ f_output.x >= Len(f_input.line)
  /\ f_pc' = "done"
  /\ UNCHANGED <<comp, notCall, f_input, f_output>>

NextSlide == SlideInitStack \/ SlideTurn \/ SlideEnd

SpecSlide == InitSlide /\ [][NextSlide]_vars

\* The sum of the ring entries, the entry j places from stack_ptr
\* weighted r + 1 - |j|.
RECURSIVE WeightedRing(_, _, _, _)
WeightedRing(st, r, j, lane) ==
  IF j > r THEN 0
  ELSE (r + 1 - Abs(j)) * st.stack[(st.stack_ptr + (2 * r + 1) + j) % (2 * r + 1)][lane]
         + WeightedRing(st, r, j + 1, lane)

\* C27: throughout a pass each lane of `sum` is the weighted sum of the
\* 2r+1 ring entries, so 0 <= sum <= 255*(r+1)^2; no subtraction on sum,
\* sum_in or sum_out underflows; the ring index and the pixel reads stay
\* in range.
AccumulatorsWithinRange ==
  (comp = "slide" /\ f_pc = "slide") =>
    LET r == f_input.radius
        div == 2 * r + 1
        st == f_output.st
        x == f_output.x
        stack_start == (st.stack_ptr + div - r) % div
        src == Min(x + r + 1, Len(f_input.line) - 1)
        ptr1 == (st.stack_ptr + 1) % div
    IN  \A lane \in 1..4 :
          /\ st.sum[lane] = WeightedRing(st, r, -r, lane)
          /\ 0 <= st.sum[lane]
          /\ st.sum[lane] <= 255 * (r + 1) * (r + 1)
          /\ stack_start \in 0..(div - 1)
          /\ src \in 0..(Len(f_input.line) - 1)
          /\ (x < Len(f_input.line)) =>
               /\ st.sum[lane] - st.sum_out[lane] >= 0
               /\ st.sum_out[lane] - st.stack[stack_start][lane] >= 0
               /\ st.sum_in[lane] + f_input.line[src + 1][lane]
                    - (IF ptr1 = stack_start THEN f_input.line[src + 1][lane]
                       ELSE st.stack[ptr1][lane]) >= 0

(***************************************************************************)
(* read_pixel_premultiplied_simd on one pixel of the input image.          *)
(***************************************************************************)
StraightPixels ==
  { <<r, g, b, a>> : r \in {0, 1, 9, 127, 128, 254, 255}, g \in {0, 255},
                     b \in {0, 200}, a \in 0..255 }

InitPremultiply ==
  /\ comp = "premultiply"
  /\ IdleBlur
  /\ IdleBreak
  /\ IdleTree
  /\ IdleRender
  /\ IdleWebp
  /\ f_pc = "start"
  /\ f_input \in StraightPixels
  /\ f_output = <<>>

ReadPixelPremultiplied ==
  /\ comp = "premultiply"
  /\ f_pc = "start"
  /\ f_output' = <<read_pixel_premultiplied_simd(f_input)>>
  /\ f_pc' = "done"
  /\ UNCHANGED <<comp, notCall, f_input>>

NextPremultiply == ReadPixelPremultiplied

SpecPremultiply == InitPremultiply /\ [][NextPremultiply]_vars

\* C28: every pixel read through read_pixel_premultiplied_simd is a valid
\* premultiplied colour, each of r, g, b at most alpha; a fully
\* transparent pixel gives 0 to the colour sums whatever its RGB bytes.
PremultipliedReadIsValid ==
  (comp = "premultiply" /\ f_pc = "done") =>
    /\ \A c \in 1..3 : f_output[1][c] <= f_output[1][4]
    /\ f_output[1][4] = f_input[4]
    /\ (f_input[4] = 0) => \A c \in 1..3 : f_output[1][c] = 0

\* The constraints left open by a log of paint events: a push opens its
\* path, a pop must close the path opened last.  <<"unbalanced">> when a
\* pop finds another path, or none.
RECURSIVE OpenConstraints(_, _)
OpenConstraints(log, open) ==
  IF log = <<>> THEN open
  ELSE IF log[1][1] = "push"
  THEN OpenConstraints(Tail(log), Append(open, log[1][2]))
  ELSE IF log[1][1] = "pop"
  THEN IF open # <<>> /\ open[Len(open)] = log[1][2]
       THEN OpenConstraints(Tail(log), SubSeq(open, 1, Len(open) - 1))
       ELSE <<"unbalanced">>
  ELSE OpenConstraints(Tail(log), open)

\* The paths of the constraints on the canvases, outermost canvas first.
ConstraintPaths ==
  Flatten([c \in 1..Len(r_canvases) |->
             [k \in 1..Len(r_canvases[c].constraints) |->
                r_canvases[c].constraints[k].path]])

\* C29: render_node leaves the constraint stack as it found it on every
\* return path: pushes and pops are matched and nested, the constraints
\* on the canvases are those pushed by calls still running, and none is
\* left when the traversal is over.
ConstraintStackBalanced ==
  comp = "render" =>
    LET open == OpenConstraints(r_log, <<>>)
    IN  /\ open # <<"unbalanced">>
        /\ ConstraintPaths = open
        /\ \A k \in DOMAIN open :
             \E f \in DOMAIN r_stack :
               r_stack[f].kind = "node" /\ r_stack[f].path = open[k]
        /\ (r_pc = "done" /\ r_result.kind = "Ok") =>
             r_result.image.constraints = <<>>

NestedConstraintsClosed ==
  /\ comp = "render"
  /\ r_pc = "done"
  /\ r_result.kind = "Ok"
  /\ Len(r_tree.children) = 2
  /\ r_tree.children[2].style.clip_path
  /\ Len(r_tree.children[1].children) = 1
  /\ r_tree.children[1].children[1].style.content_box = <<0, 2>>
  /\ \E i, j, k, l \in DOMAIN r_log :
       /\ i < j /\ j < k /\ k < l
       /\ r_log[i] = <<"push", <<1>>>>
       /\ r_log[j] = <<"push", <<1, 1>>>>
       /\ r_log[k] = <<"pop", <<1, 1>>>>
       /\ r_log[l] = <<"pop", <<1>>>>
  /\ \E j \in DOMAIN r_log : r_log[j] = <<"draw", <<1, 1, 1>>>>
  /\ \E j \in DOMAIN r_log : r_log[j] = <<"mask", <<1, 2>>>>

\* Whether a frame can be muxed: its image was encoded and the buffer
\* holds a VP8L or 'VP8 ' chunk.
FrameUsable(frame) ==
  /\ frame.encoded.ok
  /\ FirstVp8Payload(frame.encoded.buf, 12)[1] = "Ok"

\* C30: encode_animated_webp writes nothing to the destination unless
\* every frame was encoded and its payload extracted: when one of them
\* fails the call returns Err with zero bytes written.
FailedFrameWritesNothing ==
  comp = "webp" =>
    /\ (w_result = "Err") => w_destination = <<>>
    /\ (w_destination # <<>>) =>
         /\ w_result = "Ok"
         /\ \A i \in DOMAIN w_frames : FrameUsable(w_frames[i])
    /\ (w_pc = "done" /\ \E i \in DOMAIN w_frames : ~FrameUsable(w_frames[i])) =>
         w_result = "Err"

SecondFrameFailedAfterFirstAssembled ==
  /\ comp = "webp"
  /\ w_pc = "done"
  /\ w_result = "Err"
  /\ Len(w_frames) = 2
  /\ w_next = 2
  /\ FrameUsable(w_frames[1])
  /\ w_frames[2].encoded.ok
  /\ ~FrameUsable(w_frames[2])
  /\ Len(w_output) > 32
  /\ w_destination = <<>>

\* C1: blurring an image whose pixels are all the same fully opaque colour
\* leaves every pixel equal to that colour.
UniformOpaque(img) ==
  \A i \in DOMAIN img : img[i] = img[1] /\ img[i][4] = 255

BlurUniformOpaqueIsIdentity ==
  (b_pc = "done" /\ UniformOpaque(original)) => pixels = original

====
